---- MODULE Spec2Model ----
(***************************************************************************)
(* A model of the glTF loader of sveltejs-gl: src/loader/GLTFLoader.mjs    *)
(* (the constructor, loadModel, buffer loading, the checkLoad barrier,     *)
(* afterLoadBuffer, _parseMeshes) and src/internal/utils.mjs               *)
(* (base64ToBinary, relative2absolute, generateVertexNormals,              *)
(* generateTangents).                                                      *)
(*                                                                         *)
(* JavaScript strings are sequences of one-character strings; indices of   *)
(* the source are 0-based, sequences here are 1-based.                     *)
(***************************************************************************)
EXTENDS Integers, Sequences, FiniteSets, TLC

VARIABLES
    phase,          \* which operation the behaviour exercises, and how far it is
    args,           \* the inputs of the function under check
    ret,            \* its result, and for loadModel the loader and its calls
    gltfInfo,       \* the parsed document (lib.gltfInfo)
    loading,        \* _parseGLTF's counter of outstanding buffers
    fetchState,     \* per declared buffer: how far its load is
    libBuffers,     \* lib.buffers: null, or the set of indices that hold a buffer
    libBufferViews, \* lib.bufferViews: the indices that hold a slice
    libMeshes,      \* lib.meshes: per mesh, the primitives pushed
    pendings,       \* the primitive promises of the last _parseMeshes call
    awaiting,       \* afterLoadBuffer is suspended at `await Promise.all`
    timers,         \* setTimeout callbacks (the reject of line 247) not yet run
    promise,        \* the promise _parseGLTF returned
    unhandled,      \* errors that ended in a rejected promise nobody handles
    starts          \* history: one record per call of afterLoadBuffer

vars == <<phase, args, ret, gltfInfo, loading, fetchState, libBuffers,
          libBufferViews, libMeshes, pendings, awaiting, timers, promise,
          unhandled, starts>>

loadVars == <<gltfInfo, loading, fetchState, libBuffers, libBufferViews,
              libMeshes, pendings, awaiting, timers, promise, unhandled, starts>>

(***************************************************************************)
(* Bounds of the model.                                                    *)
(***************************************************************************)
MaxBytes == 3
MaxSegs == 3
MaxBuffers == 2
MaxMeshes == 2
MaxPrims == 2

(***************************************************************************)
(* Sequence helpers.                                                       *)
(***************************************************************************)
SeqsUpTo(S, n) == UNION {[1..k -> S] : k \in 0..n}

Max(S) == CHOOSE x \in S : \A y \in S : y <= x

\* String.prototype.charAt with a 0-based index: "" outside the string.
charAt(s, k) == IF k >= 0 /\ k < Len(s) THEN s[k + 1] ELSE ""

Drop(s, n) == SubSeq(s, n + 1, Len(s))

(***************************************************************************)
(* utils.mjs: base64ToBinary                                               *)
(***************************************************************************)
chars ==
    <<"A","B","C","D","E","F","G","H","I","J","K","L","M","N","O","P",
      "Q","R","S","T","U","V","W","X","Y","Z","a","b","c","d","e","f",
      "g","h","i","j","k","l","m","n","o","p","q","r","s","t","u","v",
      "w","x","y","z","0","1","2","3","4","5","6","7","8","9","+","/">>

\* lookup[input.charCodeAt(j)]: the 6-bit value of an alphabet character; the
\* table is zero elsewhere, and a read past the end of the string or of the
\* table is undefined, which the shifts and masks turn into 0.
lookup(c) ==
    IF \E i \in 1..Len(chars) : chars[i] = c
    THEN (CHOOSE i \in 1..Len(chars) : chars[i] = c) - 1
    ELSE 0

\* The decodable length: line 59 to 61. The two tests read input.charAt(len - 1)
\* with len counted from charStart, as the source does.
decodableLength(input, charStart) ==
    LET len0 == Len(input) - charStart
        len1 == IF charAt(input, len0 - 1) = "=" THEN len0 - 1 ELSE len0
    IN  IF charAt(input, len1 - 1) = "=" THEN len1 - 1 ELSE len1

\* new Uint8Array((len / 4) * 3): the length is truncated to an integer.
uarrayLength(len) == (len * 3) \div 4

\* The three bytes a quartet (c1, c2, c3, c4) yields, lines 71 to 73. The values
\* are below 64, so each | joins disjoint bits and is a sum.
quartetBytes(c1, c2, c3, c4) ==
    << (c1 * 4 + (c2 \div 16)) % 256,
       ((c2 % 16) * 16 + (c3 \div 4)) % 256,
       ((c3 % 4) * 64 + c4) % 256 >>

base64ToBinary_noTrim(input, charStart) ==
    LET n == uarrayLength(Len(input) - charStart)
        c(j) == lookup(charAt(input, j))
    IN  [i \in 1..n |->
            LET q == (i - 1) \div 3
                j == charStart + 4 * q
            IN  quartetBytes(c(j), c(j + 1), c(j + 2), c(j + 3))[((i - 1) % 3) + 1]]

\* The loop of line 65 writes uarray[i] for i < uarray.length, three bytes per
\* quartet read from j = charStart on; writes past the end are dropped.
base64ToBinary(input, charStart) ==
    LET n == uarrayLength(decodableLength(input, charStart))
        c(j) == lookup(charAt(input, j))
    IN  [i \in 1..n |->
            LET q == (i - 1) \div 3
                j == charStart + 4 * q
            IN  quartetBytes(c(j), c(j + 1), c(j + 2), c(j + 3))[((i - 1) % 3) + 1]]

(***************************************************************************)
(* utils.mjs: relative2absolute                                            *)
(***************************************************************************)
\* String.prototype.split('/'): the parts between the separators, "" included.
RECURSIVE splitFrom(_, _, _)
splitFrom(s, i, cur) ==
    IF i > Len(s) THEN <<cur>>
    ELSE IF s[i] = "/" THEN <<cur>> \o splitFrom(s, i + 1, <<>>)
    ELSE splitFrom(s, i + 1, Append(cur, s[i]))

split(s) == splitFrom(s, 1, <<>>)

\* Array.prototype.join('/').
RECURSIVE join(_)
join(parts) ==
    IF Len(parts) = 0 THEN <<>>
    ELSE IF Len(parts) = 1 THEN parts[1]
    ELSE parts[1] \o <<"/">> \o join(Tail(parts))


\* basePathParts.pop(): nothing happens on an empty array.
pop(parts) == IF Len(parts) = 0 THEN parts ELSE SubSeq(parts, 1, Len(parts) - 1)

\* The while loop of lines 93 to 100 on (pathParts, basePathParts).
RECURSIVE stripLeading(_, _)
stripLeading(pathParts, basePathParts) ==
    IF Len(pathParts) > 0 /\ pathParts[1] \in {<<".">>, <<".", ".">>}
    THEN stripLeading(Tail(pathParts),
                      IF pathParts[1] = <<".", ".">> THEN pop(basePathParts)
                      ELSE basePathParts)
    ELSE <<pathParts, basePathParts>>

relative2absolute_noPop(path, basePath) ==
    IF Len(basePath) = 0 \/ charAt(path, 0) = "/" THEN path
    ELSE LET r == stripLeading(split(path), <<>>)
         IN  join(split(basePath)) \o <<"/">> \o join(r[1])

relative2absolute(path, basePath) ==
    IF Len(basePath) = 0 \/ charAt(path, 0) = "/" THEN path
    ELSE LET r == stripLeading(split(path), split(basePath))
         IN  join(r[2]) \o <<"/">> \o join(r[1])


(***************************************************************************)
(* GLTFLoader.mjs: _loadBuffers' data-URI prefix                           *)
(***************************************************************************)
base64Prefix ==
    <<"d","a","t","a",":","a","p","p","l","i","c","a","t","i","o","n","/","o","c","t","e","t","-","s","t","r","e","a","m",";","b","a","s","e","6","4",",">>

(***************************************************************************)
(* Inputs of the pure functions.                                           *)
(***************************************************************************)
\* Standard padded base64 (RFC 4648) of a byte sequence: the encoder a document's
\* author used, not code of the loader.
RECURSIVE Encode(_)
Encode(b) ==
    IF Len(b) = 0 THEN <<>>
    ELSE IF Len(b) = 1 THEN
        << chars[(b[1] \div 4) + 1], chars[((b[1] % 4) * 16) + 1], "=", "=" >>
    ELSE IF Len(b) = 2 THEN
        << chars[(b[1] \div 4) + 1],
           chars[((b[1] % 4) * 16 + (b[2] \div 16)) + 1],
           chars[((b[2] % 16) * 4) + 1], "=" >>
    ELSE
        << chars[(b[1] \div 4) + 1],
           chars[((b[1] % 4) * 16 + (b[2] \div 16)) + 1],
           chars[((b[2] % 16) * 4 + (b[3] \div 64)) + 1],
           chars[(b[3] % 64) + 1] >> \o Encode(Drop(b, 3))

SampleBytes == {0, 65, 190, 255}
ByteSeqs == SeqsUpTo(SampleBytes, MaxBytes)
Prefixes == {<<>>, <<"x">>, <<"=", ",">>, base64Prefix}

PathSegs == {<<".">>, <<".", ".">>, <<"a">>, <<>>}
BaseSegs == {<<"m">>, <<"s">>, <<>>}

PathTexA == <<".",".","/","t","e","x","/","a",".","p","n","g">>
PathDotA == <<".","/","a",".","p","n","g">>
PathAbsA == <<"/","a","b","s","/","a",".","p","n","g">>
BaseModels == <<"m","o","d","e","l","s">>
BaseModelsScene == <<"m","o","d","e","l","s","/","s","c","e","n","e">>
StrTexA == <<"t","e","x","/","a",".","p","n","g">>
StrModelsTexA == <<"m","o","d","e","l","s","/","t","e","x","/","a",".","p","n","g">>
StrModelsA == <<"m","o","d","e","l","s","/","a",".","p","n","g">>

Paths == {join(p) : p \in SeqsUpTo(PathSegs, MaxSegs) \ {<<>>}}
             \cup {PathTexA, PathDotA, PathAbsA}
Bases == {join(p) : p \in SeqsUpTo(BaseSegs, MaxSegs - 1) \ {<<>>}}
             \cup {BaseModels, BaseModelsScene}

(***************************************************************************)
(* The load's variables while a pure function is exercised.                *)
(***************************************************************************)
NoDocument == [buffers |-> <<>>, bufferViews |-> <<>>, meshes |-> <<>>, nodes |-> <<>>]
Reason(kind, a, b) == [kind |-> kind, a |-> a, b |-> b]
NoPromise == [state |-> "pending", reason |-> Reason("none", -1, -1)]

LoadIdle ==
    /\ gltfInfo = NoDocument
    /\ loading = 0
    /\ fetchState = <<>>
    /\ libBuffers = [isNull |-> FALSE, has |-> {}]
    /\ libBufferViews = {}
    /\ libMeshes = <<>>
    /\ pendings = <<>>
    /\ awaiting = FALSE
    /\ timers = 0
    /\ promise = NoPromise
    /\ unhandled = {}
    /\ starts = <<>>

(***************************************************************************)
(* Specification Base64Spec: base64ToBinary(prefix + Encode(bytes), charStart)*)
(***************************************************************************)
InitBase64 ==
    /\ phase = "base64:call"
    /\ args \in [bytes : ByteSeqs, prefix : Prefixes]
    /\ ret = <<>>
    /\ LoadIdle

Decode ==
    /\ phase = "base64:call"
    /\ ret' = base64ToBinary(args.prefix \o Encode(args.bytes), Len(args.prefix))
    /\ phase' = "base64:done"
    /\ UNCHANGED <<args, loadVars>>

NextBase64 == Decode

Base64Spec == InitBase64 /\ [][NextBase64]_vars

(***************************************************************************)
(* Specification PathSpec: relative2absolute(path, basePath)               *)
(***************************************************************************)
InitPath ==
    /\ phase = "r2a:call"
    /\ args \in [path : Paths, basePath : Bases]
    /\ ret = <<>>
    /\ LoadIdle

Resolve ==
    /\ phase = "r2a:call"
    /\ ret' = relative2absolute(args.path, args.basePath)
    /\ phase' = "r2a:done"
    /\ UNCHANGED <<args, loadVars>>

NextPath == Resolve

PathSpec == InitPath /\ [][NextPath]_vars

(***************************************************************************)
(* GLTFLoader.mjs: _loadBuffers and _resolveBufferPath                     *)
(***************************************************************************)
\* String.prototype.substr(start, length).
substr(s, start, length) ==
    SubSeq(s, start + 1, IF start + length > Len(s) THEN Len(s) ELSE start + length)


\* path.match(/^data:(.*?)base64,/) is not null: the path starts with "data:"
\* and "base64," follows somewhere after it (the strings here hold no line
\* terminator, which '.' would not match).
matchesDataBase64(path) ==
    /\ substr(path, 0, Len(<<"d","a","t","a",":">>)) = <<"d","a","t","a",":">>
    /\ \E i \in Len(<<"d","a","t","a",":">>)..Len(path) :
          substr(path, i, Len(<<"b","a","s","e","6","4",",">>)) = <<"b","a","s","e","6","4",",">>

\* _resolveBufferPath, lines 531 to 537.
_resolveBufferPath_alwaysResolves(path, bufferRootPath) ==
    relative2absolute(path, bufferRootPath)

_resolveBufferPath(path, bufferRootPath) ==
    IF Len(path) > 0 /\ matchesDataBase64(path) THEN path
    ELSE relative2absolute(path, bufferRootPath)

\* _loadBuffers, lines 509 to 525, up to its return: the calls of onsuccess it
\* made itself, with the buffer each received, and the calls of fetch it made,
\* with the path each received.
_loadBuffers(path, bufferRootPath) ==
    LET strStart == substr(path, 0, Len(base64Prefix))
    IN  IF strStart = base64Prefix
        THEN [onsuccess |-> <<base64ToBinary(path, Len(base64Prefix))>>,
              fetch |-> <<>>]
        ELSE [onsuccess |-> <<>>,
              fetch |-> <<_resolveBufferPath(path, bufferRootPath)>>]

(***************************************************************************)
(* Specification LoadBuffersSpec: _loadBuffers(prefix + rest, ...) of a    *)
(* loader whose bufferRootPath is given.                                   *)
(***************************************************************************)
GltfBufferPrefix == <<"d","a","t","a",":","a","p","p","l","i","c","a","t","i","o","n","/","g","l","t","f","-","b","u","f","f","e","r",";","b","a","s","e","6","4",",">>
DataPrefixes == {base64Prefix, GltfBufferPrefix, <<"d","a","t","a",":",";","b","a","s","e","6","4",",">>}

LoadBufferArgs ==
    [prefix : DataPrefixes, rest : {Encode(b) : b \in ByteSeqs}, bufferRootPath : Bases]
        \cup [prefix : {<<>>}, rest : Paths, bufferRootPath : Bases]

InitLoadBuffers ==
    /\ phase = "loadBuffers:call"
    /\ args \in LoadBufferArgs
    /\ ret = <<>>
    /\ LoadIdle

LoadBuffers ==
    /\ phase = "loadBuffers:call"
    /\ ret' = _loadBuffers(args.prefix \o args.rest, args.bufferRootPath)
    /\ phase' = "loadBuffers:done"
    /\ UNCHANGED <<args, loadVars>>

NextLoadBuffers == LoadBuffers

LoadBuffersSpec == InitLoadBuffers /\ [][NextLoadBuffers]_vars

(***************************************************************************)
(* Typed arrays. A buffer is a sequence of bytes; a typed array is         *)
(* [threw, ctor, data]: the constructor's name and the elements as         *)
(* numbers. The Float32 values of this model are integers of magnitude     *)
(* below 2^24, which Float32 holds exactly, so that arithmetic on them is  *)
(* exact integer arithmetic.                                               *)
(***************************************************************************)
RECURSIVE Pow2(_)
Pow2(n) == IF n = 0 THEN 1 ELSE 2 * Pow2(n - 1)

ARRAY_CTOR_MAP ==
    [componentType \in {5120, 5121, 5122, 5123, 5125, 5126} |->
        CASE componentType = 5120 -> "Int8Array"
          [] componentType = 5121 -> "Uint8Array"
          [] componentType = 5122 -> "Int16Array"
          [] componentType = 5123 -> "Uint16Array"
          [] componentType = 5125 -> "Uint32Array"
          [] componentType = 5126 -> "Float32Array"]

BYTES_PER_ELEMENT(ctor) ==
    CASE ctor \in {"Int8Array", "Uint8Array"} -> 1
      [] ctor \in {"Int16Array", "Uint16Array"} -> 2
      [] ctor \in {"Uint32Array", "Float32Array"} -> 4

SIZE_MAP ==
    [type \in {"SCALAR", "VEC2", "VEC3", "VEC4", "MAT2", "MAT3", "MAT4"} |->
        CASE type = "SCALAR" -> 1
          [] type = "VEC2" -> 2
          [] type = "VEC3" -> 3
          [] type = "VEC4" -> 4
          [] type = "MAT2" -> 4
          [] type = "MAT3" -> 9
          [] type = "MAT4" -> 16]

\* The IEEE 754 binary32 value of four little-endian bytes: sign bit, 8 bits of
\* biased exponent e, 23 bits of fraction m, value (2^23 + m) * 2^(e - 150).
\* Exact for zero and for the integer values with e >= 127; the buffers of this
\* model hold no other pattern.
float32(b0, b1, b2, b3) ==
    LET sign == b3 \div 128
        e == (b3 % 128) * 2 + (b2 \div 128)
        m == (b2 % 128) * 65536 + b1 * 256 + b0
        magnitude == IF e = 0 THEN 0
                     ELSE IF e >= 150 THEN (Pow2(23) + m) * Pow2(e - 150)
                     ELSE (Pow2(23) + m) \div Pow2(150 - e)
    IN  IF sign = 1 THEN 0 - magnitude ELSE magnitude

\* The element a view of constructor ctor reads at byte `at` (0-based) of buffer:
\* little-endian, two's complement for the signed integers.
getElement(ctor, buffer, at) ==
    LET b(j) == buffer[at + j + 1]
    IN  CASE ctor = "Uint8Array" -> b(0)
          [] ctor = "Int8Array" -> IF b(0) >= 128 THEN b(0) - 256 ELSE b(0)
          [] ctor = "Uint16Array" -> b(0) + 256 * b(1)
          [] ctor = "Int16Array" ->
                IF b(1) >= 128 THEN b(0) + 256 * b(1) - 65536 ELSE b(0) + 256 * b(1)
          [] ctor = "Uint32Array" -> b(0) + 256 * b(1) + 65536 * (b(2) + 256 * b(3))
          [] ctor = "Float32Array" -> float32(b(0), b(1), b(2), b(3))

RangeError == [threw |-> TRUE, ctor |-> "none", data |-> <<>>]
TypedArray(ctor, data) == [threw |-> FALSE, ctor |-> ctor, data |-> data]

\* new ArrayCtor(buffer, byteOffset, length): a RangeError when byteOffset is not
\* a multiple of the element size or the view would pass the end of the buffer.
newTypedArrayView(ctor, buffer, byteOffset, length) ==
    LET bpe == BYTES_PER_ELEMENT(ctor)
    IN  IF byteOffset % bpe # 0 \/ byteOffset + length * bpe > Len(buffer)
        THEN RangeError
        ELSE TypedArray(ctor, [i \in 1..length |->
                                  getElement(ctor, buffer, byteOffset + (i - 1) * bpe)])

(***************************************************************************)
(* GLTFLoader.mjs: _getAccessorData. An accessor is [componentType, type,  *)
(* count, byteOffset, decodeMatrix, buffer]: the fields of                 *)
(* gltfInfo.accessors[accessorIdx], the decodeMatrix of its                *)
(* WEB3D_quantized_attributes extension (<<>> when it has none) and the    *)
(* bytes of lib.bufferViews[accessorInfo.bufferView].                      *)
(***************************************************************************)
\* ARRAY_CTOR_MAP[accessorInfo.componentType] || Float32Array.
ArrayCtorOf(componentType) ==
    IF componentType \in DOMAIN ARRAY_CTOR_MAP THEN ARRAY_CTOR_MAP[componentType]
    ELSE "Float32Array"

\* `size` of lines 610 to 613. An undefined size is 0 here: size * count is then
\* NaN, which the typed array constructors take as length 0, and no loop over
\* k < size runs.
sizeOf(type, isIndices) ==
    IF type \in DOMAIN SIZE_MAP THEN SIZE_MAP[type]
    ELSE IF isIndices THEN 1 ELSE 0

\* The loops of lines 623 to 631 on a Float32Array of size * count zeros.
decodeQuantized(arr, decodeMatrix, size, count) ==
    LET decodeOffset == [k \in 0..(size - 1) |-> decodeMatrix[size * (size + 1) + k + 1]]
        decodeScale == [k \in 0..(size - 1) |-> decodeMatrix[k * (size + 1) + k + 1]]
    IN  TypedArray("Float32Array",
            [j \in 1..(size * count) |->
                LET k == (j - 1) % size
                IN  arr.data[j] * decodeScale[k] + decodeOffset[k]])

_getAccessorData_countOnly(accessorInfo, isIndices) ==
    LET ArrayCtor == ArrayCtorOf(accessorInfo.componentType)
        arr == newTypedArrayView(ArrayCtor, accessorInfo.buffer, accessorInfo.byteOffset,
                                 accessorInfo.count)
    IN  IF arr.threw THEN arr
        ELSE IF accessorInfo.decodeMatrix # <<>>
        THEN decodeQuantized(arr, accessorInfo.decodeMatrix, 1, accessorInfo.count)
        ELSE arr

_getAccessorData_offsetFromDiagonal(accessorInfo, isIndices) ==
    LET ArrayCtor == ArrayCtorOf(accessorInfo.componentType)
        size == sizeOf(accessorInfo.type, isIndices)
        arr == newTypedArrayView(ArrayCtor, accessorInfo.buffer, accessorInfo.byteOffset,
                                 size * accessorInfo.count)
        decodeMatrix == accessorInfo.decodeMatrix
    IN  IF arr.threw THEN arr
        ELSE IF decodeMatrix # <<>>
        THEN TypedArray("Float32Array",
                 [j \in 1..(size * accessorInfo.count) |->
                     LET k == (j - 1) % size
                     IN  arr.data[j] * decodeMatrix[k * (size + 1) + k + 1]
                             + decodeMatrix[k * (size + 1) + k + 1]])
        ELSE arr

\* _getAccessorData, lines 603 to 636.
_getAccessorData(accessorInfo, isIndices) ==
    LET ArrayCtor == ArrayCtorOf(accessorInfo.componentType)
        size == sizeOf(accessorInfo.type, isIndices)
        arr == newTypedArrayView(ArrayCtor, accessorInfo.buffer, accessorInfo.byteOffset,
                                 size * accessorInfo.count)
    IN  IF arr.threw THEN arr
        ELSE IF accessorInfo.decodeMatrix # <<>>
        THEN decodeQuantized(arr, accessorInfo.decodeMatrix, size, accessorInfo.count)
        ELSE arr

(***************************************************************************)
(* Accessors as inputs: the bytes a document's author wrote for a          *)
(* sequence of element values.                                             *)
(***************************************************************************)
MaxCount == 2

\* floor(log2(v)) for v >= 1.
RECURSIVE Log2(_)
Log2(v) == IF v < 2 THEN 0 ELSE 1 + Log2(v \div 2)

\* The little-endian bytes of the binary32 encoding of an integer v, |v| < 2^24.
float32Bytes(v) ==
    IF v = 0 THEN <<0, 0, 0, 0>>
    ELSE LET sign == IF v < 0 THEN 1 ELSE 0
             a == IF v < 0 THEN 0 - v ELSE v
             e == Log2(a) + 127
             m == (a - Pow2(Log2(a))) * Pow2(23 - Log2(a))
         IN  << m % 256, (m \div 256) % 256, (e % 2) * 128 + (m \div 65536),
                sign * 128 + (e \div 2) >>

\* The little-endian bytes of value v in the element type of ctor.
elementBytes(ctor, v) ==
    CASE ctor \in {"Int8Array", "Uint8Array"} -> << v % 256 >>
      [] ctor \in {"Int16Array", "Uint16Array"} ->
            << (v % 65536) % 256, (v % 65536) \div 256 >>
      [] ctor = "Uint32Array" ->
            << v % 256, (v \div 256) % 256, (v \div 65536) % 256, v \div 16777216 >>
      [] ctor = "Float32Array" -> float32Bytes(v)

\* The values an author writes, repeated in a cycle, by element type.
ValuePatterns(ctor) ==
    CASE ctor = "Uint8Array" -> {<<1, 2, 3, 4>>, <<255, 0, 7>>}
      [] ctor = "Int8Array" -> {<<1, 2, 3, 4>>, <<-1, 0, -128>>}
      [] ctor = "Uint16Array" -> {<<1, 2, 3, 4>>, <<300, 0, 65535>>}
      [] ctor = "Int16Array" -> {<<1, 2, 3, 4>>, <<-300, 0, 7>>}
      [] ctor = "Uint32Array" -> {<<1, 2, 3, 4>>, <<70000, 0, 300>>}
      [] ctor = "Float32Array" -> {<<1, 2, 3, 4>>, <<-1, 0, 5, -3>>}

\* Element j (0-based) of the cycle.
ValueAt(values, j) == values[(j % Len(values)) + 1]

RECURSIVE BytesFrom(_, _, _, _)
BytesFrom(ctor, values, j, n) ==
    IF j >= n THEN <<>>
    ELSE elementBytes(ctor, ValueAt(values, j)) \o BytesFrom(ctor, values, j + 1, n)

\* A column-major (n+1) x (n+1) decode matrix: scale k + 2 and offset k + 10 for
\* component k when affine, the identity otherwise.
DecodeMatrixOf(kind, n) ==
    [j \in 1..((n + 1) * (n + 1)) |->
        LET col == (j - 1) \div (n + 1)
            row == (j - 1) % (n + 1)
        IN  IF col = row THEN (IF kind = "affine" /\ row < n THEN row + 2 ELSE 1)
            ELSE IF col = n /\ kind = "affine" THEN row + 10
            ELSE 0]

\* What an author may write: a component type (5124 is not one of the six), a
\* type, a count, a byte offset, with or without the quantization extension,
\* the values, and whether the buffer view lacks its last byte.
AccessorCases ==
    UNION {[componentType : {ct},
            type : DOMAIN SIZE_MAP \cup {"absent"},
            count : 0..MaxCount,
            byteOffset : {0, 2, 4},
            decodeKind : {"none", "identity", "affine"},
            values : ValuePatterns(ArrayCtorOf(ct)),
            truncated : BOOLEAN]
              : ct \in DOMAIN ARRAY_CTOR_MAP \cup {5124}}

\* The accessor of a case: byteOffset bytes of padding, then the elements.
AccessorOf(c, isIndices) ==
    LET n == sizeOf(c.type, isIndices)
        bytes == [i \in 1..c.byteOffset |-> 0]
                     \o BytesFrom(ArrayCtorOf(c.componentType), c.values, 0, n * c.count)
    IN  [componentType |-> c.componentType,
         type |-> c.type,
         count |-> c.count,
         byteOffset |-> c.byteOffset,
         decodeMatrix |-> IF c.decodeKind = "none" THEN <<>>
                          ELSE DecodeMatrixOf(c.decodeKind, n),
         buffer |-> IF c.truncated /\ Len(bytes) > 0
                    THEN SubSeq(bytes, 1, Len(bytes) - 1) ELSE bytes]

(***************************************************************************)
(* Specification AccessorSpec: _getAccessorData on the accessor of a case. *)
(***************************************************************************)
InitAccessor ==
    /\ phase = "accessor:call"
    /\ args \in [case : AccessorCases, isIndices : BOOLEAN]
    /\ ret = <<>>
    /\ LoadIdle

GetAccessorData ==
    /\ phase = "accessor:call"
    /\ ret' = _getAccessorData(AccessorOf(args.case, args.isIndices), args.isIndices)
    /\ phase' = "accessor:done"
    /\ UNCHANGED <<args, loadVars>>

NextAccessor == GetAccessorData

AccessorSpec == InitAccessor /\ [][NextAccessor]_vars


(***************************************************************************)
(* GLTFLoader.mjs: documents                                               *)
(*                                                                         *)
(* A document is [buffers, bufferViews, meshes]: buffers[i] says whether   *)
(* the uri of buffer i is an inline base64 data URI or a path to fetch;    *)
(* bufferViews[v] is the buffer index of view v; meshes[m] is the sequence *)
(* of primitives of mesh m. A primitive is [draco, attributes, indices]:   *)
(* whether it declares KHR_draco_mesh_compression, its attributes in the   *)
(* order of Object.keys, each a semantic with its accessor, and its index  *)
(* accessor (a sequence of none or one). An accessor carries the bytes of  *)
(* its buffer view, so that a primitive does not depend on the layout of   *)
(* the document's buffers.                                                 *)
(***************************************************************************)
semanticAttributeMap ==
    [s \in {"NORMAL", "POSITION", "TANGENT", "TEXCOORD_0", "TEXCOORD_1",
            "WEIGHTS_0", "JOINTS_0", "COLOR_0"} |->
        CASE s = "NORMAL" -> "normal"
          [] s = "POSITION" -> "position"
          [] s = "TANGENT" -> "tangent"
          [] s = "TEXCOORD_0" -> "uv"
          [] s = "TEXCOORD_1" -> "uv1"
          [] s = "WEIGHTS_0" -> "weight"
          [] s = "JOINTS_0" -> "joint"
          [] s = "COLOR_0" -> "color"]

MaxVertices == 3

\* The type and the values an author gives the accessor of a semantic; altLayout
\* is WEIGHTS_0 with 3 components and COLOR_0 with 4.
TypeOfSemantic(semantic, altLayout) ==
    CASE semantic \in {"POSITION", "NORMAL"} -> "VEC3"
      [] semantic \in {"TEXCOORD_0", "TEXCOORD_1"} -> "VEC2"
      [] semantic \in {"TANGENT", "JOINTS_0"} -> "VEC4"
      [] semantic = "WEIGHTS_0" -> IF altLayout THEN "VEC3" ELSE "VEC4"
      [] semantic = "COLOR_0" -> IF altLayout THEN "VEC4" ELSE "VEC3"
      [] OTHER -> "SCALAR"

ValuesOfSemantic(semantic) ==
    CASE semantic = "POSITION" -> <<0, 0, 0, 1, 0, 0, 0, 1, 0, 0, 0, 1>>
      [] semantic = "NORMAL" -> <<0, 0, 1>>
      [] semantic = "WEIGHTS_0" -> <<1, 1, 2, 4, 3, 0, 0, 0>>
      [] semantic = "COLOR_0" -> <<5, 6, 7, 9, 8>>
      [] OTHER -> <<1, 2, 3, 4, 5>>

\* An attribute accessor of `count` elements.
AttributeAccessor(semantic, componentType, altLayout, count) ==
    AccessorOf([componentType |-> componentType,
                type |-> TypeOfSemantic(semantic, altLayout),
                count |-> count,
                byteOffset |-> 0,
                decodeKind |-> "none",
                values |-> ValuesOfSemantic(semantic),
                truncated |-> FALSE], FALSE)

\* The index accessor of one triangle: vertices 0, 1, 2 of those there are;
\* 0, 1 and the first index past the last vertex; or 0, 1 and -1, which an
\* accessor of a signed component type can hold.
IndexValues(kind, vertices) ==
    IF kind = "outOfRange" THEN <<0, 1, vertices>>
    ELSE IF kind = "negative" THEN <<0, 1, -1>>
    ELSE IF vertices = 0 THEN <<0>>
    ELSE <<0, 1 % vertices, 2 % vertices>>

IndexAccessor(kind, componentType, vertices) ==
    AccessorOf([componentType |-> componentType,
                type |-> "SCALAR",
                count |-> IF kind = "valid" /\ vertices = 0 THEN 0 ELSE 3,
                byteOffset |-> 0,
                decodeKind |-> "none",
                values |-> IndexValues(kind, vertices),
                truncated |-> FALSE], TRUE)

\* What an author may write for a primitive: attributes among POSITION, NORMAL
\* and TEXCOORD_0 and at most one more (_BATCHID is not a semantic the loader
\* knows), all of one component type; the POSITION accessor counts `vertices`
\* elements and the other attribute accessors vertices + more, which the
\* loader does not compare; and an index accessor of any of the six component
\* types, with a negative element for the signed ones.
BaseSemantics ==
    {SelectSeq(<<"POSITION", "NORMAL", "TEXCOORD_0">>, LAMBDA s : s \in S)
        : S \in SUBSET {"POSITION", "NORMAL", "TEXCOORD_0"}}

ExtraSemantics ==
    {<<>>} \cup {<<s>> : s \in {"TANGENT", "TEXCOORD_1", "WEIGHTS_0", "JOINTS_0",
                                "COLOR_0", "_BATCHID"}}

IndexCases ==
    {[kind |-> "none", componentType |-> 5123]}
        \cup [kind : {"valid", "outOfRange"}, componentType : DOMAIN ARRAY_CTOR_MAP]
        \cup [kind : {"negative"}, componentType : {5120, 5122, 5126}]

PrimitiveCases ==
    {c \in [draco : {FALSE},
            semantics : {b \o e : b \in BaseSemantics, e \in ExtraSemantics},
            componentType : DOMAIN ARRAY_CTOR_MAP,
            altLayout : BOOLEAN,
            vertices : 0..MaxVertices,
            more : {-1, 0, 1},
            index : IndexCases] : c.vertices + c.more >= 0}
        \cup [draco : {TRUE},
              semantics : BaseSemantics,
              componentType : {5126},
              altLayout : {FALSE},
              vertices : {1},
              more : {0},
              index : {[kind |-> "none", componentType |-> 5123]}]

PrimitiveOf(c) ==
    [draco |-> c.draco,
     attributes |->
         [ss \in 1..Len(c.semantics) |->
             [semantic |-> c.semantics[ss],
              accessor |-> AttributeAccessor(c.semantics[ss], c.componentType,
                                             c.altLayout,
                                             IF c.semantics[ss] = "POSITION"
                                             THEN c.vertices
                                             ELSE c.vertices + c.more)]],
     indices |-> IF c.index.kind = "none" THEN <<>>
                 ELSE <<IndexAccessor(c.index.kind, c.index.componentType, c.vertices)>>]

\* The primitives of the documents of a load: one vertex, Float32, no indices.
LoadedPrimitive(draco, semantics) ==
    PrimitiveOf([draco |-> draco, semantics |-> semantics, componentType |-> 5126,
                 altLayout |-> FALSE, vertices |-> 1, more |-> 0,
                 index |-> [kind |-> "none", componentType |-> 5123]])

PrimPlain == LoadedPrimitive(FALSE, <<"POSITION", "NORMAL">>)
PrimUV == LoadedPrimitive(FALSE, <<"POSITION", "NORMAL", "TEXCOORD_0">>)
PrimDraco == LoadedPrimitive(TRUE, <<"POSITION", "NORMAL">>)
PrimNoPosition == LoadedPrimitive(FALSE, <<"NORMAL">>)
Primitives == {PrimPlain, PrimUV, PrimDraco, PrimNoPosition}

RECURSIVE SumLen(_)
SumLen(ss) == IF Len(ss) = 0 THEN 0 ELSE Len(ss[1]) + SumLen(Tail(ss))

\* The lists of exactly n meshes with at most budget primitives in all.
RECURSIVE MeshListsOf(_, _)
MeshListsOf(n, budget) ==
    IF n = 0 THEN {<<>>}
    ELSE UNION {{<<m>> \o rest : rest \in MeshListsOf(n - 1, budget - Len(m))}
                   : m \in SeqsUpTo(Primitives, budget)}

MeshLists == UNION {MeshListsOf(n, MaxPrims) : n \in 0..MaxMeshes}

\* The views of a document reference its first or its last buffer.
ViewLayouts(n) == IF n = 0 THEN {<<>>} ELSE {<<>>, <<1>>, <<n>>, <<1, n>>}

\* gltfInfo.nodes of a document with n meshes: no such property; a node with a
\* translation that names mesh 0, under a parent without mesh; and a node with
\* a child that names mesh n, which the document does not have. A node is
\* [mesh, translation, children], mesh and children being <<>> when the node
\* has no such property; it has no camera, matrix, rotation or scale.
NodeLayouts(n) ==
    {<<>>,
     << <<[mesh |-> <<0>>, translation |-> TRUE, children |-> <<>>],
          [mesh |-> <<>>, translation |-> FALSE, children |-> << <<0>> >>]>> >>,
     << <<[mesh |-> <<n>>, translation |-> FALSE, children |-> << <<0>> >>]>> >>}

Documents ==
    UNION {[buffers : {b}, bufferViews : ViewLayouts(Len(b)), meshes : {m},
            nodes : NodeLayouts(Len(m))]
              : b \in SeqsUpTo({"inline", "fetch"}, MaxBuffers), m \in MeshLists}

(***************************************************************************)
(* Geometry. The class SvelteGeometry (../geometry/Geometry.mjs) is not    *)
(* part of the sources at hand; it is modelled from the data model of the  *)
(* specification: a Geometry holds the attributes and the index buffer it  *)
(* is given. An attribute is [data, size, count]: data is a typed array or *)
(* NullData, and count is <<>> when the attribute has no such property.    *)
(***************************************************************************)
NullData == [threw |-> FALSE, ctor |-> "null", data |-> <<>>]

SvelteGeometry(attributes, opts) ==
    [attributes |-> [name \in DOMAIN attributes |->
                        [data |-> attributes[name].data,
                         size |-> attributes[name].size,
                         count |-> <<>>]],
     index |-> opts.index]

\* The NaN of the Float32 and Number values.
NaN == -1073741824

\* new Uint32Array(typedArray) of line 433 of GLTFLoader.mjs: a new array of
\* the same length that holds each element of typedArray converted to an
\* unsigned 32-bit integer: 0 for NaN, v for v from 0 to 2^32 - 1, and
\* 2^32 + v for a negative v (an element with a fraction, which the values of
\* this model do not have, loses it first). An element u of the new array is
\* the pair of its 16-bit halves, u = hi * 65536 + lo, as 2^32 - 1 is past the
\* integers TLC computes with; 2^32 + v is 2^32 - 1 - (-v - 1), the complement
\* of -v - 1 in both halves.
newUint32Array_sixteenBits(typedArray) ==
    TypedArray("Uint32Array",
               [j \in 1..Len(typedArray.data) |->
                   [hi |-> 0, lo |-> typedArray.data[j] % 65536]])

newUint32Array(typedArray) ==
    LET toUint32(v) ==
            IF v = NaN THEN [hi |-> 0, lo |-> 0]
            ELSE IF v >= 0 THEN [hi |-> v \div 65536, lo |-> v % 65536]
            ELSE [hi |-> 65535 - ((0 - v - 1) \div 65536),
                  lo |-> 65535 - ((0 - v - 1) % 65536)]
    IN  TypedArray("Uint32Array",
                   [j \in 1..Len(typedArray.data) |-> toUint32(typedArray.data[j])])

(***************************************************************************)
(* utils.mjs: generateVertexNormals. A Float32 is an integer or NaN while  *)
(* normals accumulate; a normalized component x / sqrt(q) is kept as the   *)
(* pair [n |-> x, q |-> q], with [n |-> 0, q |-> 0] for NaN; a component   *)
(* x that was not scaled is [n |-> x, q |-> 1]. `normals` is the typed     *)
(* array the function writes: a new Float32Array, or the array the         *)
(* geometry came with, of whatever element type, whose stores convert the  *)
(* value to that type. An element of geometry.index, a Uint32Array, is the *)
(* pair [hi, lo] of its 16-bit halves (see newUint32Array).                *)
(***************************************************************************)
fadd(a, b) == IF a = NaN \/ b = NaN THEN NaN ELSE a + b
fsub(a, b) == IF a = NaN \/ b = NaN THEN NaN ELSE a - b
fmul(a, b) == IF a = NaN \/ b = NaN THEN NaN ELSE a * b

\* data[j] stored in a Float32Array: undefined, read past the end, becomes NaN.
elementOrNaN(data, j) == IF j >= 0 /\ j < Len(data) THEN data[j + 1] ELSE NaN

\* vec3.set(p, positions[i*3], positions[i*3+1], positions[i*3+2]).
vertexAt(positions, i) ==
    << elementOrNaN(positions, i * 3), elementOrNaN(positions, i * 3 + 1),
       elementOrNaN(positions, i * 3 + 2) >>

\* vec3.sub and vec3.cross of gl-matrix.
sub(a, b) == << fsub(a[1], b[1]), fsub(a[2], b[2]), fsub(a[3], b[3]) >>
cross(a, b) ==
    << fsub(fmul(a[2], b[3]), fmul(a[3], b[2])),
       fsub(fmul(a[3], b[1]), fmul(a[1], b[3])),
       fsub(fmul(a[1], b[2]), fmul(a[2], b[1])) >>

\* The face vector of lines 159 to 165.
faceNormal(positions, i1, i2, i3) ==
    LET p1 == vertexAt(positions, i1)
        p2 == vertexAt(positions, i2)
        p3 == vertexAt(positions, i3)
    IN  cross(sub(p1, p2), sub(p2, p3))

\* What an element of a typed array of constructor ctor holds after the store
\* of v, an integer or NaN: v itself in a Float32Array; in an integer array 0
\* for NaN, and otherwise v wrapped to the element's width (256 becomes 0, and
\* 128 becomes -128 in an Int8Array). A Uint32Array is not among them: line
\* 368 of GLTFLoader.mjs turns the Uint32Array of an attribute into a
\* Float32Array.
storedElement(ctor, v) ==
    IF ctor = "Float32Array" THEN v
    ELSE IF v = NaN THEN 0
    ELSE CASE ctor = "Uint8Array" -> v % 256
           [] ctor = "Int8Array" -> ((v + 128) % 256) - 128
           [] ctor = "Uint16Array" -> v % 65536
           [] ctor = "Int16Array" -> ((v + 32768) % 65536) - 32768

\* normals[j] = normals[j] + v on the typed array `normals`: the sum goes
\* through the element type of the array, and a write past the end is dropped.
accumulate(normals, j, v) ==
    IF j >= 0 /\ j < Len(normals.data)
    THEN [normals EXCEPT !.data[j + 1] = storedElement(normals.ctor, fadd(@, v))]
    ELSE normals

\* The loop of lines 167 to 171 for vertex i.
accumulateVertex(normals, i, n) ==
    accumulate(accumulate(accumulate(normals, i * 3, n[1]), i * 3 + 1, n[2]),
               i * 3 + 2, n[3])

\* indices[f] of the Uint32Array `indices`: undefined past the end, which
\* names no vertex (-1 here), as does an element of 2^31 or more.
indexAt(indices, f) ==
    IF f < Len(indices) /\ indices[f + 1].hi < 32768
    THEN indices[f + 1].hi * 65536 + indices[f + 1].lo
    ELSE -1

\* The face loop of lines 145 to 172 from f on: the faces are triples of
\* indices when the geometry has an index buffer, and the triples f, f+1, f+2
\* while f < vertexCount = length / count otherwise.
RECURSIVE accumulateFaces(_, _, _, _, _, _)
accumulateFaces(normals, positions, hasIndices, indices, count, f) ==
    IF (hasIndices /\ f >= Len(indices))
           \/ (~hasIndices /\ f * count >= Len(positions))
    THEN normals
    ELSE LET i1 == IF hasIndices THEN indexAt(indices, f) ELSE f
             i2 == IF hasIndices THEN indexAt(indices, f + 1) ELSE f + 1
             i3 == IF hasIndices THEN indexAt(indices, f + 2) ELSE f + 2
             n == faceNormal(positions, i1, i2, i3)
         IN  accumulateFaces(
                 accumulateVertex(accumulateVertex(accumulateVertex(normals, i1, n), i2, n),
                                  i3, n),
                 positions, hasIndices, indices, count, f + 3)

\* vec3.normalize(n, n) of gl-matrix on n = (x, y, z): the components times
\* 1 / sqrt(x*x + y*y + z*z) when that sum is positive. When it is not (zero,
\* or NaN) the major versions of gl-matrix differ, and the repository does not
\* say which one it is built with: gl-matrix 2 leaves n as it is, gl-matrix 3
\* multiplies the components by the sum.
normalized(glMatrix, x, y, z) ==
    LET q == fadd(fadd(fmul(x, x), fmul(y, y)), fmul(z, z))
        component(c) == IF c = NaN THEN [n |-> 0, q |-> 0]
                        ELSE IF q = NaN
                        THEN (IF glMatrix = 2 THEN [n |-> c, q |-> 1]
                              ELSE [n |-> 0, q |-> 0])
                        ELSE IF q > 0 THEN [n |-> c, q |-> q]
                        ELSE [n |-> 0, q |-> 1]
    IN  << component(x), component(y), component(z) >>

\* The loop of lines 174 to 180 on the typed array `normals`: element j of the
\* result is the component of the normalized triple it belongs to, stored
\* through the element type of the array. vec3.normalize leaves n / sqrt(q) in
\* the Float32Array n, rounded to the nearest Float32, which the pair [n, q]
\* stands for. An integer array drops the fraction of that Float32: as q is 1
\* or at least n * n, what is left is n when q = 1, the sign of n when the
\* quotient was rounded to 1 or -1, and 0 otherwise (and for NaN). With
\* r = q - n * n, the quotient sqrt(1 - r / q) is rounded to 1 when it is at
\* least 1 - 2^-25, that is when r = 0 or q >= r * 2^24 + r / 4 + 1 (r is
\* below 128 then, q being below 2^31).
normalizeAll(glMatrix, normals) ==
    LET roundsToOne(c) ==
            LET r == c.q - c.n * c.n
            IN  c.n # 0 /\ (r = 0 \/ (r < 128 /\ c.q >= r * 16777216 + (r \div 4) + 1))
        store(c) == IF normals.ctor = "Float32Array" THEN c
                    ELSE IF c.q = 0 THEN 0
                    ELSE IF c.q = 1 THEN storedElement(normals.ctor, c.n)
                    ELSE IF roundsToOne(c)
                    THEN storedElement(normals.ctor, IF c.n > 0 THEN 1 ELSE -1)
                    ELSE 0
    IN  [normals EXCEPT !.data =
            [j \in 1..Len(normals.data) |->
                LET i == ((j - 1) \div 3) * 3
                IN  store(normalized(glMatrix, elementOrNaN(normals.data, i),
                                     elementOrNaN(normals.data, i + 1),
                                     elementOrNaN(normals.data, i + 2))[((j - 1) % 3) + 1])]]

\* vertexCount of lines 110 to 118 is truthy: the position holds data, has a
\* count, and its data is not empty (length / undefined is NaN, 0 / count is 0).
hasVertexCount(position) ==
    /\ position.data.ctor # "null"
    /\ position.count # <<>>
    /\ Len(position.data.data) # 0

\* The normals of lines 123 to 134 before the face loop: a new Float32Array of
\* the length of the positions when the geometry has no normals of that
\* length, and the geometry's own normals, every element set to 0, otherwise
\* (line 125 compares the lengths, not the element types).
initialNormals_keepsMatching(normal, positions) ==
    IF normal.ctor = "null" \/ Len(normal.data) # Len(positions)
    THEN TypedArray("Float32Array", [j \in 1..Len(positions) |-> 0])
    ELSE normal

initialNormals(normal, positions) ==
    IF normal.ctor = "null" \/ Len(normal.data) # Len(positions)
    THEN TypedArray("Float32Array", [j \in 1..Len(positions) |-> 0])
    ELSE TypedArray(normal.ctor, [j \in 1..Len(normal.data) |-> 0])

\* The normals after the face loop, lines 120 to 172, of a geometry that has a
\* vertex count: the typed array of the accumulators, which the loop of line
\* 174 normalizes.
accumulatedNormals(geometry) ==
    accumulateFaces(initialNormals(geometry.attributes.normal.data,
                                   geometry.attributes.position.data.data),
                    geometry.attributes.position.data.data,
                    geometry.index.ctor # "null", geometry.index.data,
                    geometry.attributes.position.count[1], 0)

\* generateVertexNormals, lines 109 to 182: whether it threw, and the geometry
\* as it leaves it. vertexCount is NaN, and the function returns, when the
\* position has no count; `this` is undefined in a function of a module, so
\* this.dirty() of line 181 throws a TypeError once the normals are written.
\* glMatrix is the major version of gl-matrix the build holds.
generateVertexNormals(glMatrix, geometry) ==
    IF ~hasVertexCount(geometry.attributes.position)
    THEN [threw |-> FALSE, geometry |-> geometry]
    ELSE [threw |-> TRUE,
          geometry |-> [geometry EXCEPT !.attributes.normal.data =
                           normalizeAll(glMatrix, accumulatedNormals(geometry))]]

(***************************************************************************)
(* Specification NormalsSpec: generateVertexNormals(geometry), called      *)
(* twice in a row on one geometry, as _parseMeshes calls it (line 481): a  *)
(* plain call, whose TypeError of line 181 the caller catches. The         *)
(* positions are those of one to MaxFaces triangles; the position has no   *)
(* count, as the attributes _parseMeshes builds have none, or the count 3  *)
(* that makes length / count the number of vertices; the normals are       *)
(* absent, or a Float32Array, an Int8Array or an Int16Array; the build     *)
(* holds gl-matrix 2 or gl-matrix 3.                                       *)
(***************************************************************************)
MaxFaces == 2

\* The positions of k triangles, three vertices each: the first one over four
\* points, or with an edge of length 200, whose face vector is past the range
\* of a byte, or with the face vector (-5000,-1,0), whose first component
\* over its length is rounded to -1 in a Float32; the others are one of two
\* further triangles.
RECURSIVE PositionLists(_)
PositionLists(k) ==
    IF k <= 1 THEN LET points == {<<0, 0, 0>>, <<1, 0, 0>>, <<0, 1, 0>>, <<0, 0, 1>>}
                   IN  {p1 \o p2 \o p3 : p1 \in points, p2 \in points, p3 \in points}
                           \cup {<<0, 0, 0, 1, 0, 0, 0, 0, 200>>,
                                 <<0, 0, 1, 0, 0, 0, 1, -5000, 0>>}
    ELSE {front \o t : front \in PositionLists(k - 1),
                       t \in {<<0, 0, 0, 0, 1, 0, 0, 0, 1>>, <<1, 0, 0, 0, 1, 0, 0, 0, 1>>}}

\* The index buffers: none, one face, one face wound the other way, a face that
\* names a vertex twice, two faces that share an edge (vertex 3 is past the end
\* of the positions of one triangle), and an incomplete triple.
IndexLists ==
    {<<>>} \cup {<<l>> : l \in {<<0, 1, 2>>, <<0, 2, 1>>, <<0, 0, 1>>,
                                <<0, 1, 2, 0, 2, 3>>, <<0, 1>>}}

\* The normals the geometry has before the call: none, normals of the length
\* of the positions left by an earlier computation, in a Float32Array, in an
\* Int8Array or in an Int16Array (the arrays of a NORMAL accessor of component
\* type 5120 or 5122), or normals of another length.
NormalsBefore(kind, length) ==
    CASE kind = "null" -> NullData
      [] kind = "stale" -> TypedArray("Float32Array", [j \in 1..length |-> 5])
      [] kind = "bytes" -> TypedArray("Int8Array", [j \in 1..length |-> 5])
      [] kind = "shorts" -> TypedArray("Int16Array", [j \in 1..length |-> 5])
      [] kind = "short" -> TypedArray("Float32Array", [j \in 1..(length - 3) |-> 5])

NormalsCases ==
    [glMatrix : {2, 3},
     positions : UNION {PositionLists(k) : k \in 1..MaxFaces},
     count : {<<>>, <<3>>},
     normal : {"null", "stale", "bytes", "shorts", "short"},
     index : IndexLists]

NormalsGeometry(c) ==
    [attributes |->
        [position |-> [data |-> TypedArray("Float32Array", c.positions),
                       size |-> 3, count |-> c.count],
         normal |-> [data |-> NormalsBefore(c.normal, Len(c.positions)),
                     size |-> 3, count |-> c.count],
         uv |-> [data |-> NullData, size |-> 2, count |-> c.count]],
     index |-> IF c.index = <<>> THEN NullData
               ELSE newUint32Array(TypedArray("Uint16Array", c.index[1]))]

InitNormals ==
    /\ phase = "normals:call"
    /\ args \in [case : NormalsCases]
    /\ ret = <<>>
    /\ LoadIdle

\* The first call; `sums` is the normals as the face loop leaves them, which
\* exist when the call got past the return of line 117.
GenerateNormals ==
    /\ phase = "normals:call"
    /\ ret' = [once |-> generateVertexNormals(args.case.glMatrix,
                                                NormalsGeometry(args.case)),
               twice |-> <<>>,
               sums |-> IF hasVertexCount(NormalsGeometry(args.case).attributes.position)
                        THEN <<accumulatedNormals(NormalsGeometry(args.case))>>
                        ELSE <<>>]
    /\ phase' = "normals:once"
    /\ UNCHANGED <<args, loadVars>>

\* The second call, on the geometry the first one left.
GenerateNormalsAgain ==
    /\ phase = "normals:once"
    /\ ret' = [ret EXCEPT !.twice = <<generateVertexNormals(args.case.glMatrix,
                                                      ret.once.geometry)>>]
    /\ phase' = "normals:twice"
    /\ UNCHANGED <<args, loadVars>>

NextNormals == GenerateNormals \/ GenerateNormalsAgain

NormalsSpec == InitNormals /\ [][NextNormals]_vars

(***************************************************************************)
(* utils.mjs: generateTangents. The function reads the vertex count from   *)
(* its parameter and everything else from `this`; `bound` says whether it  *)
(* is called with the geometry as `this` (generateTangents.call(geometry,  *)
(* geometry)) or as a plain function, where `this` is undefined. The       *)
(* result is the error it throws with the line that throws it ("none" and  *)
(* 0 when it returns), whether it logged the warning of line 211, and the  *)
(* geometry as it leaves it.                                               *)
(***************************************************************************)
\* nVertex of line 200, for a position whose count divides its length.
nVertexOf(position) == Len(position.data.data) \div position.count[1]

\* Lines 202 to 204: a tangent attribute without data gets a new Float32Array
\* of nVertex * 4 zeros, before the texcoords are looked at.
withTangentData(attributes, nVertex) ==
    IF attributes.tangent.data.ctor = "null"
    THEN [attributes EXCEPT !.tangent.data =
             TypedArray("Float32Array", [j \in 1..(nVertex * 4) |-> 0])]
    ELSE attributes

\* The vertex index i1, i2 or i3 (k = 0, 1, 2) of the face that starts at f,
\* lines 229 to 238; -1 is the undefined an index buffer yields past its end.
tangentFaceIndex(index, f, k) ==
    IF index.ctor = "null" THEN f + k ELSE indexAt(index.data, f + k)

\* The first f and k from (f, k) on, as 3 * f + k, at which vec3.add of lines
\* 278 to 280 receives a tan1[i] that is undefined (i is no vertex), where it
\* throws a TypeError; -1 when the face loop of lines 228 to 284 ends without.
\* What the loop computes goes to tan1 and tan2, local to the function.
RECURSIVE firstMissingVertex(_, _, _, _)
firstMissingVertex(index, nVertex, f, k) ==
    IF (index.ctor # "null" /\ f >= Len(index.data))
           \/ (index.ctor = "null" /\ f >= nVertex)
    THEN -1
    ELSE IF tangentFaceIndex(index, f, k) < 0
                \/ tangentFaceIndex(index, f, k) >= nVertex
    THEN 3 * f + k
    ELSE IF k < 2 THEN firstMissingVertex(index, nVertex, f, k + 1)
    ELSE firstMissingVertex(index, nVertex, f + 3, 0)

\* Lines 215 to 306 on a geometry with texcoords. `normals` of line 208 is
\* attributes.normal.value, which no attribute has (an attribute holds its
\* buffer in `data`): it is undefined, and normals[i * 3] of line 289 throws a
\* TypeError at the first vertex, before any tangent is written.
tangentLoops(geometry, missing) ==
    [threw |-> "TypeError",
     line |-> IF missing >= 0 THEN 278 + (missing % 3) ELSE 289,
     warned |-> FALSE,
     geometry |-> geometry]

\* Lines 200 to 306, once `this` is the geometry and it has a tangent attribute.
tangentsOf(geometry) ==
    IF geometry.attributes.uv.data.ctor = "null"
    THEN [threw |-> "none", line |-> 0, warned |-> TRUE, geometry |-> geometry]
    ELSE tangentLoops(geometry,
                      firstMissingVertex(geometry.index,
                                         nVertexOf(geometry.attributes.position), 0, 0))

\* generateTangents, lines 189 to 307.
generateTangents(bound, geometry) ==
    IF ~hasVertexCount(geometry.attributes.position)
    THEN [threw |-> "none", line |-> 0, warned |-> FALSE, geometry |-> geometry]
    ELSE IF ~bound
    THEN [threw |-> "TypeError", line |-> 201, warned |-> FALSE, geometry |-> geometry]
    ELSE IF "tangent" \notin DOMAIN geometry.attributes
    THEN [threw |-> "TypeError", line |-> 202, warned |-> FALSE, geometry |-> geometry]
    ELSE tangentsOf([geometry EXCEPT !.attributes =
                        withTangentData(@, nVertexOf(geometry.attributes.position))])

(***************************************************************************)
(* Specification TangentsSpec: generateTangents on the first vertices of a *)
(* unit quad in the plane z = 0, with normals (0,0,1).                     *)
(***************************************************************************)

\* Texcoords: none, the axis-aligned ones of the quad, and the same texcoord at
\* every vertex, for which the determinant of line 269 is zero.
TexcoordsOf(kind, n) ==
    CASE kind = "null" -> NullData
      [] kind = "aligned" ->
            TypedArray("Float32Array",
                       SubSeq(<<0, 0, 1, 0, 1, 1, 0, 1, 0, 0, 1, 0>>, 1, 2 * n))
      [] kind = "flat" -> TypedArray("Float32Array", [j \in 1..(2 * n) |-> 1])

\* The tangent attribute: none, one without data, one with data of 4 per
\* vertex left by an earlier computation, one with data of 3 per vertex.
TangentOf(kind, n, count) ==
    CASE kind = "null" -> [data |-> NullData, size |-> 4, count |-> count]
      [] kind = "stale" ->
            [data |-> TypedArray("Float32Array", [j \in 1..(4 * n) |-> 5]),
             size |-> 4, count |-> count]
      [] kind = "short" ->
            [data |-> TypedArray("Float32Array", [j \in 1..(3 * n) |-> 5]),
             size |-> 4, count |-> count]

TangentsCases ==
    [vertices : 3..(MaxFaces + 2),
     count : {<<>>, <<3>>},
     uv : {"null", "aligned", "flat"},
     tangent : {"absent", "null", "stale", "short"},
     index : IndexLists,
     bound : BOOLEAN]

TangentsBase(c) ==
    [position |-> [data |-> TypedArray("Float32Array",
                                       SubSeq(<<0, 0, 0, 1, 0, 0, 1, 1, 0, 0, 1, 0, 0, 0, 0, 1, 0, 0>>, 1, 3 * c.vertices)),
                   size |-> 3, count |-> c.count],
     normal |-> [data |-> TypedArray("Float32Array",
                                     [j \in 1..(3 * c.vertices) |->
                                         IF j % 3 = 0 THEN 1 ELSE 0]),
                 size |-> 3, count |-> c.count],
     uv |-> [data |-> TexcoordsOf(c.uv, c.vertices), size |-> 2, count |-> c.count]]

TangentsGeometry(c) ==
    [attributes |->
        IF c.tangent = "absent" THEN TangentsBase(c)
        ELSE [name \in {"position", "normal", "uv", "tangent"} |->
                 IF name = "tangent" THEN TangentOf(c.tangent, c.vertices, c.count)
                 ELSE TangentsBase(c)[name]],
     index |-> IF c.index = <<>> THEN NullData
               ELSE newUint32Array(TypedArray("Uint16Array", c.index[1]))]

InitTangents ==
    /\ phase = "tangents:call"
    /\ args \in [case : TangentsCases]
    /\ ret = <<>>
    /\ LoadIdle

GenerateTangents ==
    /\ phase = "tangents:call"
    /\ ret' = generateTangents(args.case.bound, TangentsGeometry(args.case))
    /\ phase' = "tangents:done"
    /\ UNCHANGED <<args, loadVars>>

NextTangents == GenerateTangents

TangentsSpec == InitTangents /\ [][NextTangents]_vars

(***************************************************************************)
(* GLTFLoader.mjs: _parseMeshes                                            *)
(***************************************************************************)
Fulfilled == [state |-> "fulfilled", reason |-> Reason("none", -1, -1)]
Rejected(r) == [state |-> "rejected", reason |-> r]

\* geometry.attributes of the literal of lines 329 to 345.
geometryAttributes ==
    [position |-> [data |-> NullData, size |-> 3, type |-> "none"],
     normal |-> [data |-> NullData, size |-> 3, type |-> "none"],
     uv |-> [data |-> NullData, size |-> 2, type |-> "none"]]

\* The attribute slots the literal creates.
geometrySlots == DOMAIN geometryAttributes

\* What a typed array of constructor ctor holds after the store of num / den:
\* the quotient itself in a Float32Array, kept as the pair [num, den]; in an
\* integer array 0 for NaN and the infinities, and otherwise the quotient
\* truncated toward zero and wrapped to the element's width.
storedQuotient(ctor, num, den) ==
    LET trunc == IF den = 0 THEN 0
                 ELSE IF (num >= 0) = (den > 0) THEN
                     (IF num >= 0 THEN num ELSE 0 - num)
                         \div (IF den > 0 THEN den ELSE 0 - den)
                 ELSE 0 - ((IF num >= 0 THEN num ELSE 0 - num)
                               \div (IF den > 0 THEN den ELSE 0 - den))
    IN  CASE ctor = "Float32Array" -> [num |-> num, den |-> den]
          [] ctor = "Uint8Array" -> trunc % 256
          [] ctor = "Int8Array" -> ((trunc + 128) % 256) - 128
          [] ctor = "Uint16Array" -> trunc % 65536
          [] ctor = "Int16Array" -> ((trunc + 32768) % 65536) - 32768

\* weightArray of lines 366 to 376.
weightArray(attributeArray, count) ==
    TypedArray(attributeArray.ctor,
        [j \in 1..(count * 3) |->
            LET i4 == ((j - 1) \div 3) * 4
                w(c) == attributeArray.data[i4 + c]
            IN  storedQuotient(attributeArray.ctor, w(((j - 1) % 3) + 1),
                               w(1) + w(2) + w(3) + w(4))])

\* colorArray of lines 379 to 386.
colorArray(attributeArray, count) ==
    TypedArray(attributeArray.ctor,
        [j \in 1..(count * 4) |->
            IF (j - 1) % 4 = 3 THEN 1
            ELSE attributeArray.data[((j - 1) \div 4) * 3 + ((j - 1) % 4) + 1]])

\* attributeType of lines 391 to 400.
attributeTypeOf(ctor) ==
    CASE ctor = "Uint16Array" -> "ushort"
      [] ctor = "Int16Array" -> "short"
      [] ctor = "Uint8Array" -> "ubyte"
      [] ctor = "Int8Array" -> "byte"
      [] OTHER -> "float"

\* `attributeArray instanceof Uint32Array` of lines 366 to 368: the elements of
\* a Uint32Array go to a Float32Array, which holds those below 2^24 as they are.
withoutUint32(attributeArray) ==
    IF attributeArray.ctor = "Uint32Array"
    THEN TypedArray("Float32Array", attributeArray.data) ELSE attributeArray

\* The data lines 369 to 390 assign, of the attribute array of line 363.
attributeData(semantic, size, attributeArray, count) ==
    IF semantic = "WEIGHTS_0" /\ size = 4 THEN weightArray(attributeArray, count)
    ELSE IF semantic = "COLOR_0" /\ size = 3 THEN colorArray(attributeArray, count)
    ELSE attributeArray

\* Lines 365 to 422 of one turn of the loop of line 354, once _getAccessorData
\* has returned `read` (or thrown): the error the turn throws ("none" when it
\* throws none) and the geometry.attributes it leaves. The assignment to
\* geometry.attributes[attributeName].data throws a TypeError when the literal
\* has no slot of that name.
storeAttribute(attributes, semantic, attributeInfo, read) ==
    IF read.threw THEN [threw |-> "RangeError", attributes |-> attributes]
    ELSE IF semanticAttributeMap[semantic] \notin DOMAIN attributes
    THEN [threw |-> "TypeError", attributes |-> attributes]
    ELSE [threw |-> "none",
          attributes |->
              [attributes EXCEPT ![semanticAttributeMap[semantic]] =
                  [data |-> attributeData(semantic, sizeOf(attributeInfo.type, FALSE),
                                          withoutUint32(read), attributeInfo.count),
                   size |-> sizeOf(attributeInfo.type, FALSE),
                   type |-> attributeTypeOf(withoutUint32(read).ctor)]]]

\* One turn of the loop of line 354, lines 355 to 422: a semantic without an
\* internal name is skipped.
parseAttribute(attributes, semantic, attributeInfo) ==
    IF semantic \notin DOMAIN semanticAttributeMap
    THEN [threw |-> "none", attributes |-> attributes]
    ELSE storeAttribute(attributes, semantic, attributeInfo,
                        _getAccessorData(attributeInfo, FALSE))

\* The loop of line 354 from attribute ss (0-based) on, and its continuation
\* after the turn of attribute ss, which ends the loop when it threw.
RECURSIVE parseAttributes(_, _, _)
RECURSIVE afterAttribute(_, _, _)
parseAttributes(attributes, primitiveInfo, ss) ==
    IF ss >= Len(primitiveInfo.attributes)
    THEN [threw |-> "none", attributes |-> attributes]
    ELSE afterAttribute(parseAttribute(attributes,
                                       primitiveInfo.attributes[ss + 1].semantic,
                                       primitiveInfo.attributes[ss + 1].accessor),
                        primitiveInfo, ss)

afterAttribute(one, primitiveInfo, ss) ==
    IF one.threw # "none" THEN one
    ELSE parseAttributes(one.attributes, primitiveInfo, ss + 1)

\* Lines 480 to 496, once generateVertexNormals has returned or thrown: the
\* error the executor throws ("none" when it throws none) and the primitive it
\* pushes on lib.meshes[idx].
afterNormals(generated) ==
    IF generated.threw THEN [threw |-> "TypeError", pushed |-> <<>>]
    ELSE [threw |-> "none", pushed |-> <<[geometry |-> generated.geometry]>>]

\* Lines 480 to 496 for the primitive whose geometry is given. The attributes
\* of a geometry built here have no count, so generateVertexNormals returns at
\* line 117, before it reaches gl-matrix: the call has one result whatever the
\* version.
pushPrimitive(geometry) ==
    IF geometry.attributes.normal.data.ctor # "null"
    THEN [threw |-> "none", pushed |-> <<[geometry |-> geometry]>>]
    ELSE afterNormals(CHOOSE generated \in
                          {generateVertexNormals(glMatrix, geometry) : glMatrix \in {2, 3}} :
                          TRUE)

\* Lines 452 to 496: the primitive of the attributes and the indices parsed. The
\* material (null) and the mode of the primitive are left out, and so is
\* geometry.boundingBox, which the Geometry does not receive.
emitPrimitive(attributes, indices) ==
    pushPrimitive(SvelteGeometry(
                      [position |-> [data |-> attributes.position.data,
                                     size |-> attributes.position.size],
                       normal |-> [data |-> attributes.normal.data,
                                   size |-> attributes.normal.size],
                       uv |-> [data |-> attributes.uv.data,
                               size |-> attributes.uv.size]],
                      [index |-> indices]))

\* Lines 432 to 496, once _getAccessorData has returned the indices `read` (or
\* thrown).
withIndices(attributes, read) ==
    IF read.threw THEN [threw |-> "RangeError", pushed |-> <<>>]
    ELSE emitPrimitive(attributes, newUint32Array(read))

\* Lines 425 to 496, after the loop over the semantics. Line 426 reads
\* position.data.length, a TypeError while position.data is null.
afterAttributes(primitiveInfo, parsed) ==
    IF parsed.threw # "none" THEN [threw |-> parsed.threw, pushed |-> <<>>]
    ELSE IF parsed.attributes.position.data.ctor = "null"
    THEN [threw |-> "TypeError", pushed |-> <<>>]
    ELSE IF primitiveInfo.indices = <<>>
    THEN emitPrimitive(parsed.attributes, NullData)
    ELSE withIndices(parsed.attributes, _getAccessorData(primitiveInfo.indices[1], TRUE))

\* The else branch of line 351, lines 352 to 496: the error it throws ("none"
\* when it throws none) and the primitive it pushes on lib.meshes[idx].
assemble(primitiveInfo) ==
    afterAttributes(primitiveInfo, parseAttributes(geometryAttributes, primitiveInfo, 0))

\* The promise of an executor that ran the else branch, and what it pushed: an
\* executor that throws rejects its promise.
settled(done, idx, pp) ==
    IF done.threw # "none"
    THEN [promise |-> Rejected(Reason(done.threw, idx, pp)), pushed |-> <<>>]
    ELSE [promise |-> Fulfilled, pushed |-> done.pushed]

\* The executor of one primitive's promise, lines 323 to 498, for mesh idx and
\* primitive pp (0-based, as the message of line 350 names them). The result is
\* the promise and what the executor pushed on lib.meshes[idx].
primitivePromise_dracoPushes(primitiveInfo, idx, pp) ==
    IF primitiveInfo.draco
    THEN [promise |-> Rejected(Reason("draco", idx, pp)),
          pushed |-> assemble(primitiveInfo).pushed]
    ELSE settled(assemble(primitiveInfo), idx, pp)

primitivePromise(primitiveInfo, idx, pp) ==
    IF primitiveInfo.draco
    THEN [promise |-> Rejected(Reason("draco", idx, pp)), pushed |-> <<>>]
    ELSE settled(assemble(primitiveInfo), idx, pp)

\* The for loop of line 321 over the primitives of mesh idx from pp on.
RECURSIVE parsePrimitives(_, _, _)
parsePrimitives(primitives, idx, pp) ==
    IF pp >= Len(primitives) THEN [pendings |-> <<>>, list |-> <<>>]
    ELSE LET one == primitivePromise(primitives[pp + 1], idx, pp)
             rest == parsePrimitives(primitives, idx, pp + 1)
         IN  [pendings |-> <<one.promise>> \o rest.pendings,
              list |-> one.pushed \o rest.list]

\* gltfInfo.meshes.forEach of line 317 from mesh idx on: lib.meshes[idx] = [] and
\* the primitives' promises, in order.
RECURSIVE parseMeshesFrom(_, _)
parseMeshesFrom(meshes, idx) ==
    IF idx >= Len(meshes) THEN [pendings |-> <<>>, meshes |-> <<>>]
    ELSE LET one == parsePrimitives(meshes[idx + 1], idx, 0)
             rest == parseMeshesFrom(meshes, idx + 1)
         IN  [pendings |-> one.pendings \o rest.pendings,
              meshes |-> <<one.list>> \o rest.meshes]

_parseMeshes(g) == parseMeshesFrom(g.meshes, 0)

(***************************************************************************)
(* Specification AssembleSpec: the executor of the promise of one          *)
(* primitive, mesh 0, primitive 0.                                         *)
(***************************************************************************)
InitAssemble ==
    /\ phase = "assemble:call"
    /\ args \in [case : PrimitiveCases]
    /\ ret = <<>>
    /\ LoadIdle

Assemble ==
    /\ phase = "assemble:call"
    /\ ret' = primitivePromise(PrimitiveOf(args.case), 0, 0)
    /\ phase' = "assemble:done"
    /\ UNCHANGED <<args, loadVars>>

NextAssemble == Assemble

AssembleSpec == InitAssemble /\ [][NextAssemble]_vars

(***************************************************************************)
(* GLTFLoader.mjs: _parseGLTF. The operators below take and return the     *)
(* load's state as a record l; an action commits the record a whole        *)
(* handler leaves.                                                         *)
(***************************************************************************)
Cur ==
    [loading |-> loading, fetchState |-> fetchState, libBuffers |-> libBuffers,
     libBufferViews |-> libBufferViews, libMeshes |-> libMeshes,
     pendings |-> pendings, awaiting |-> awaiting, timers |-> timers,
     promise |-> promise, unhandled |-> unhandled, starts |-> starts]

Commit(l) ==
    /\ loading' = l.loading
    /\ fetchState' = l.fetchState
    /\ libBuffers' = l.libBuffers
    /\ libBufferViews' = l.libBufferViews
    /\ libMeshes' = l.libMeshes
    /\ pendings' = l.pendings
    /\ awaiting' = l.awaiting
    /\ timers' = l.timers
    /\ promise' = l.promise
    /\ unhandled' = l.unhandled
    /\ starts' = l.starts

\* resolve and reject of the promise of line 202: the first call settles it.
resolve(p) == IF p.state = "pending" THEN [state |-> "resolved", reason |-> Reason("none", -1, -1)] ELSE p
reject(p, r) == IF p.state = "pending" THEN [state |-> "rejected", reason |-> r] ELSE p

\* lib.buffers.length: one more than the highest index assigned.
buffersLength(has) == IF has = {} THEN 0 ELSE Max(has)

\* The views the forEach of line 251 slices before lib.buffers[view.buffer] is
\* undefined, where .slice throws.
slicedViews(g, has) ==
    {v \in 1..Len(g.bufferViews) : \A u \in 1..v : g.bufferViews[u] \in has}

\* afterLoadBuffer, from its call to its `await`: lines 242 to 266.
afterLoadBuffer(g, l) ==
    LET incomplete == buffersLength(l.libBuffers.has) # Len(g.buffers)
        sliced == slicedViews(g, l.libBuffers.has)
        threw == sliced # 1..Len(g.bufferViews)
        parsed == _parseMeshes(g)
        start == [loaded |-> l.libBuffers.has,
                  incomplete |-> incomplete,
                  sliced |-> sliced,
                  parsed |-> ~threw]
        l1 == [l EXCEPT !.starts = Append(@, start),
                        !.timers = IF incomplete THEN @ + 1 ELSE @]
    IN  IF threw
        THEN [l1 EXCEPT !.libBufferViews = @ \cup sliced,
                        !.unhandled = @ \cup {Reason("afterLoadBuffer:TypeError", -1, -1)}]
        ELSE [l1 EXCEPT !.libBufferViews = @ \cup sliced,
                        !.libBuffers = [isNull |-> TRUE, has |-> {}],
                        !.libMeshes = parsed.meshes,
                        !.pendings = parsed.pendings,
                        !.awaiting = TRUE]

\* checkLoad, lines 204 to 210.
checkLoad(g, l) ==
    LET l1 == [l EXCEPT !.loading = @ - 1]
    IN  IF l1.loading = 0 THEN afterLoadBuffer(g, l1) ELSE l1

\* The success callback of lines 226 to 229 once lib.buffers is known not to be
\* null (the assignment of line 227 throws a TypeError when it is).
onsuccess(g, l, idx) ==
    checkLoad(g, [l EXCEPT !.libBuffers.has = @ \cup {idx}])

\* gltfInfo.buffers.forEach of line 220 from buffer idx on, with _loadBuffers
\* (lines 509 to 525): an inline buffer calls onsuccess before _loadBuffers
\* returns, a fetched one starts a fetch. A TypeError thrown by an inline
\* onsuccess leaves the forEach and the executor, and rejects the promise.
RECURSIVE loadBuffersFrom(_, _, _)
RECURSIVE loadBuffersFrom_startsWhenNoneLoads(_, _, _)
loadBuffersFrom_startsWhenNoneLoads(g, l, idx) ==
    IF idx > Len(g.buffers)
    THEN IF Len(g.buffers) = 0 THEN afterLoadBuffer(g, l) ELSE l
    ELSE LET l1 == [l EXCEPT !.loading = @ + 1]
         IN  IF g.buffers[idx] = "inline"
             THEN IF l1.libBuffers.isNull
                  THEN [l1 EXCEPT !.promise = reject(@, Reason("TypeError", idx - 1, -1))]
                  ELSE loadBuffersFrom_startsWhenNoneLoads(
                           g, onsuccess(g, [l1 EXCEPT !.fetchState[idx] = "inline"], idx),
                           idx + 1)
             ELSE loadBuffersFrom_startsWhenNoneLoads(
                      g, [l1 EXCEPT !.fetchState[idx] = "inflight"], idx + 1)

loadBuffersFrom(g, l, idx) ==
    IF idx > Len(g.buffers) THEN l
    ELSE LET l1 == [l EXCEPT !.loading = @ + 1]
         IN  IF g.buffers[idx] = "inline"
             THEN IF l1.libBuffers.isNull
                  THEN [l1 EXCEPT !.promise = reject(@, Reason("TypeError", idx - 1, -1))]
                  ELSE loadBuffersFrom(
                           g, onsuccess(g, [l1 EXCEPT !.fetchState[idx] = "inline"], idx),
                           idx + 1)
             ELSE loadBuffersFrom(g, [l1 EXCEPT !.fetchState[idx] = "inflight"], idx + 1)

\* _parseNodes(gltfInfo, lib), lines 644 to 716: the line at which it throws a
\* TypeError, 0 when it returns. Without gltfInfo.nodes line 661 throws. A
\* node that names a mesh lib.meshes does not hold is left undefined (line
\* 667): line 692 throws on its translation in the first forEach, and line 712
\* on its first child in the second.
_parseNodes(g, libMeshesNow) ==
    IF g.nodes = <<>> THEN 661
    ELSE LET nodes == g.nodes[1]
             undefinedNodes == {i \in 1..Len(nodes) :
                                   /\ nodes[i].mesh # <<>>
                                   /\ nodes[i].mesh[1] >= Len(libMeshesNow)}
         IN  IF \E i \in undefinedNodes : nodes[i].translation THEN 692
             ELSE IF \E i \in undefinedNodes :
                         nodes[i].children # <<>> /\ Len(nodes[i].children[1]) > 0
             THEN 712
             ELSE 0

\* The resumption of afterLoadBuffer after `await Promise.all(pendingArray)`,
\* lines 266 to 299: Promise.all rejects with the first rejection, which the
\* async function turns into the rejection of its own promise, which nothing
\* handles; otherwise _parseNodes runs, whose TypeError ends the function the
\* same way, before resolve(lib) of line 299; when it returns, resolve(lib)
\* is called.
afterAwait_resolvesAnyway(g, l) ==
    [l EXCEPT !.awaiting = FALSE, !.promise = resolve(@)]

afterAwait(g, l) ==
    LET failed == {i \in 1..Len(l.pendings) : l.pendings[i].state = "rejected"}
    IN  IF failed # {}
        THEN [l EXCEPT !.awaiting = FALSE,
                       !.unhandled = @ \cup {Reason("afterLoadBuffer:rejected", -1, -1)}]
        ELSE IF _parseNodes(g, l.libMeshes) # 0
        THEN [l EXCEPT !.awaiting = FALSE,
                       !.unhandled = @ \cup {Reason("parseNodes:TypeError",
                                                    _parseNodes(g, l.libMeshes), -1)}]
        ELSE [l EXCEPT !.awaiting = FALSE, !.promise = resolve(@)]

(***************************************************************************)
(* Specification Spec: one load, _parseGLTF(gltfInfo, lib, null).          *)
(* Each action is one job of the event loop, run to completion; a job      *)
(* waiting in the microtask queue (the resumption of afterLoadBuffer) runs *)
(* before any fetch completes or any timer fires.                          *)
(***************************************************************************)
Init ==
    /\ phase = "load:start"
    /\ args = <<>>
    /\ ret = <<>>
    /\ gltfInfo \in Documents
    /\ loading = 0
    /\ fetchState = [i \in 1..Len(gltfInfo.buffers) |-> "none"]
    /\ libBuffers = [isNull |-> FALSE, has |-> {}]
    /\ libBufferViews = {}
    /\ libMeshes = <<>>
    /\ pendings = <<>>
    /\ awaiting = FALSE
    /\ timers = 0
    /\ promise = NoPromise
    /\ unhandled = {}
    /\ starts = <<>>

\* The executor of the promise of line 202, lines 204 to 236.
ParseGLTF ==
    /\ phase = "load:start"
    /\ phase' = "load:running"
    /\ Commit(loadBuffersFrom(gltfInfo, Cur, 1))
    /\ UNCHANGED <<args, ret, gltfInfo>>

\* fetch(bufferPath) of buffer idx delivers its ArrayBuffer: line 522 calls
\* onsuccess. When lib.buffers is null line 227 throws; the catch of line 523
\* hands the TypeError to onerror, whose throw rejects a promise nobody handles.
FetchSucceed(idx) ==
    /\ phase = "load:running"
    /\ ~awaiting
    /\ fetchState[idx] = "inflight"
    /\ LET l == [Cur EXCEPT !.fetchState[idx] = "ok"]
       IN  IF l.libBuffers.isNull
           THEN Commit([l EXCEPT !.unhandled =
                            @ \cup {Reason("bufferLoadError", idx - 1, -1)}])
           ELSE Commit(onsuccess(gltfInfo, l, idx))
    /\ UNCHANGED <<phase, args, ret, gltfInfo>>

\* fetch(bufferPath) of buffer idx fails: line 523 calls onerror, which throws
\* (line 231) before its checkLoad() is reached.
FetchFail(idx) ==
    /\ phase = "load:running"
    /\ ~awaiting
    /\ fetchState[idx] = "inflight"
    /\ Commit([Cur EXCEPT !.fetchState[idx] = "failed",
                          !.unhandled = @ \cup {Reason("bufferLoadError", idx - 1, -1)}])
    /\ UNCHANGED <<phase, args, ret, gltfInfo>>

AfterAwait ==
    /\ phase = "load:running"
    /\ awaiting
    /\ Commit(afterAwait(gltfInfo, Cur))
    /\ UNCHANGED <<phase, args, ret, gltfInfo>>

\* The callback of the setTimeout of line 245.
TimerFire ==
    /\ phase = "load:running"
    /\ ~awaiting
    /\ timers > 0
    /\ Commit([Cur EXCEPT !.timers = @ - 1,
                          !.promise = reject(@, Reason("notAllBuffers", -1, -1))])
    /\ UNCHANGED <<phase, args, ret, gltfInfo>>

Next ==
    \/ ParseGLTF
    \/ \E idx \in 1..Len(gltfInfo.buffers) : FetchSucceed(idx)
    \/ \E idx \in 1..Len(gltfInfo.buffers) : FetchFail(idx)
    \/ AfterAwait
    \/ TimerFire

Spec == Init /\ [][Next]_vars


(***************************************************************************)
(* GLTFLoader.mjs: the constructor and loadModel. A value that may be      *)
(* undefined or null is a sequence of none or one value. A loader is       *)
(* [rootPath, bufferRootPath, textureRootPath]. A call of loadModel is     *)
(* [url, awaits, response, body, settled, reason, parsed, requests]: the   *)
(* await it is suspended at ("fetch", "json", "arrayBuffer", or "none"     *)
(* once it has ended), the content type of the response fetch delivered,   *)
(* if any, the buffers of the document response.json() delivered, if any,  *)
(* how its promise is settled ("pending", "rejected", "undefined" when it  *)
(* is resolved with undefined, "parse" when it is resolved with the        *)
(* promise of _parseGLTF), whether _parseGLTF was called, and what         *)
(* _loadBuffers did for each buffer of the document.                       *)
(***************************************************************************)
MaxCalls == 2

\* String.prototype.includes.
includes(s, part) ==
    \E i \in 0..(Len(s) - Len(part)) : SubSeq(s, i + 1, i + Len(part)) = part

GltfJson == <<"m","o","d","e","l","/","g","l","t","f","+","j","s","o","n">>
GltfBinary == <<"m","o","d","e","l","/","g","l","t","f","-","b","i","n","a","r","y">>

\* The constructor, lines 118 to 126.
GLTFLoader(opt) ==
    [rootPath |-> opt.rootPath,
     bufferRootPath |-> opt.bufferRootPath,
     textureRootPath |-> opt.textureRootPath]

\* Lines 158 to 168: a root path that is null or undefined is set, the root
\* to url.slice(0, url.lastIndexOf('/')) and the other two to the root.
\* lastIndexOf is -1 when the url holds no "/", and slice counts a negative
\* end from the end of the url.
withRootPaths(loader, url) ==
    LET lastIndexOf == IF \E i \in 1..Len(url) : url[i] = "/"
                       THEN Max({i \in 1..Len(url) : url[i] = "/"}) - 1
                       ELSE -1
        end == IF lastIndexOf < 0
               THEN (IF Len(url) + lastIndexOf < 0 THEN 0 ELSE Len(url) + lastIndexOf)
               ELSE lastIndexOf
        rootPath == IF loader.rootPath = <<>> THEN <<SubSeq(url, 1, end)>>
                    ELSE loader.rootPath
    IN  [rootPath |-> rootPath,
         bufferRootPath |-> IF loader.bufferRootPath = <<>> THEN rootPath
                            ELSE loader.bufferRootPath,
         textureRootPath |-> IF loader.textureRootPath = <<>> THEN rootPath
                             ELSE loader.textureRootPath]

\* loadModel from its call to `await fetch(url)`, lines 134 to 170: the loader
\* and the call as they are then. The throw of line 138 rejects the promise of
\* the async function.
loadModel(loader, url) ==
    LET call == [url |-> url, awaits |-> "none", response |-> <<>>, body |-> <<>>,
                 settled |-> "rejected", reason |-> "urlError", parsed |-> FALSE,
                 requests |-> <<>>]
    IN  IF url = <<>> \/ url[1] = <<>>
        THEN [loader |-> loader, call |-> call]
        ELSE [loader |-> withRootPaths(loader, url[1]),
              call |-> [call EXCEPT !.awaits = "fetch", !.settled = "pending",
                                    !.reason = "none"]]

\* _parseGLTF(data, lib, null) up to the return of its promise, lines 195 to
\* 236, as far as loadModel is concerned: _loadBuffers is called for each
\* buffer of the document (the documents here have no buffer after an inline
\* one, whose callback can end the forEach, see checkLoad).
parseGLTFRequests(loader, buffers) ==
    [i \in 1..Len(buffers) |-> _loadBuffers(buffers[i], loader.bufferRootPath[1])]

\* The job that resumes loadModel once fetch(url) has delivered a response,
\* lines 172 to 186 up to the await of line 177 or 180. contentType is what
\* headers.get returns, null without the header, where contentType.includes
\* throws a TypeError.
afterFetch_otherTypeIsIgnored(call, contentType) ==
    LET responded == [call EXCEPT !.response = <<contentType>>]
    IN  IF contentType = <<>>
        THEN [responded EXCEPT !.awaits = "none", !.settled = "rejected",
                               !.reason = "TypeError"]
        ELSE IF includes(contentType[1], GltfJson)
        THEN [responded EXCEPT !.awaits = "json"]
        ELSE IF includes(contentType[1], GltfBinary)
        THEN [responded EXCEPT !.awaits = "arrayBuffer"]
        ELSE [responded EXCEPT !.awaits = "none", !.settled = "undefined"]

afterFetch(call, contentType) ==
    LET responded == [call EXCEPT !.response = <<contentType>>]
    IN  IF contentType = <<>>
        THEN [responded EXCEPT !.awaits = "none", !.settled = "rejected",
                               !.reason = "TypeError"]
        ELSE IF includes(contentType[1], GltfJson)
        THEN [responded EXCEPT !.awaits = "json"]
        ELSE IF includes(contentType[1], GltfBinary)
        THEN [responded EXCEPT !.awaits = "arrayBuffer"]
        ELSE [responded EXCEPT !.awaits = "none", !.settled = "rejected",
                               !.reason = "contentTypeError"]

\* The job that resumes loadModel once the body has been read, line 178 or the
\* end of the function after line 180: the document goes to _parseGLTF, which
\* reads this.bufferRootPath then; the array buffer goes nowhere. body is the
\* buffers of the document.
afterBody_binaryIsParsed(loader, call, body) ==
    [call EXCEPT !.awaits = "none", !.body = <<body>>, !.settled = "parse",
                 !.parsed = TRUE, !.requests = parseGLTFRequests(loader, body)]

afterBody(loader, call, body) ==
    IF call.awaits = "json"
    THEN [call EXCEPT !.awaits = "none", !.body = <<body>>, !.settled = "parse",
                      !.parsed = TRUE, !.requests = parseGLTFRequests(loader, body)]
    ELSE [call EXCEPT !.awaits = "none", !.settled = "undefined"]

(***************************************************************************)
(* Specification LoadModelSpec: a loader and up to MaxCalls calls of       *)
(* loadModel on it; a call can be made while earlier ones are suspended.   *)
(* args is the options the loader was constructed with; ret is             *)
(* [loader, calls]: the loader and the calls made so far.                  *)
(***************************************************************************)
Urls ==
    {<<>>, << <<>> >>,
     << <<"m","o","d","e","l","s","/","s","c","e","n","e",".","g","l","t","f">> >>,
     << <<"o","t","h","e","r","/","d","e","e","p","/","s","c","e","n","e",".","g","l","t","f">> >>,
     << <<"s","c","e","n","e",".","g","l","t","f">> >>}

LoaderOptions ==
    [rootPath : {<<>>, << <<"a","s","s","e","t","s">> >>},
     bufferRootPath : {<<>>, << <<"b","i","n">> >>},
     textureRootPath : {<<>>, << <<"t","e","x">> >>}]

ContentTypes ==
    {<<>>, <<GltfJson>>, << <<"m","o","d","e","l","/","g","l","t","f","+","j","s","o","n",";"," ","c","h","a","r","s","e","t","=","u","t","f","-","8">> >>, <<GltfBinary>>, << <<"a","p","p","l","i","c","a","t","i","o","n","/","j","s","o","n">> >>}

\* The buffers of the documents response.json() delivers.
ResponseBodies ==
    {<<PathDotA>>, <<PathTexA, PathAbsA>>, <<base64Prefix \o Encode(<<65>>)>>}

InitLoadModel ==
    /\ phase = "loadModel"
    /\ args \in [opt : LoaderOptions]
    /\ ret = [loader |-> GLTFLoader(args.opt), calls |-> <<>>]
    /\ LoadIdle

\* loader.loadModel(url) up to its first await.
LoadModel(url) ==
    /\ phase = "loadModel"
    /\ Len(ret.calls) < MaxCalls
    /\ ret' = [loader |-> loadModel(ret.loader, url).loader,
               calls |-> Append(ret.calls, loadModel(ret.loader, url).call)]
    /\ UNCHANGED <<phase, args, loadVars>>

\* fetch(url) of call k rejects, and with it the promise of loadModel.
FetchRejects(k) ==
    /\ phase = "loadModel"
    /\ ret.calls[k].awaits = "fetch"
    /\ ret' = [ret EXCEPT !.calls[k] =
                  [@ EXCEPT !.awaits = "none", !.settled = "rejected",
                            !.reason = "fetchError"]]
    /\ UNCHANGED <<phase, args, loadVars>>

\* fetch(url) of call k delivers a response.
Respond(k, contentType) ==
    /\ phase = "loadModel"
    /\ ret.calls[k].awaits = "fetch"
    /\ ret' = [ret EXCEPT !.calls[k] = afterFetch(@, contentType)]
    /\ UNCHANGED <<phase, args, loadVars>>

\* response.json() of call k delivers a document, or response.arrayBuffer()
\* an array buffer, which has no buffers to name.
BodyArrives(k, body) ==
    /\ phase = "loadModel"
    /\ \/ ret.calls[k].awaits = "json" /\ body \in ResponseBodies
       \/ ret.calls[k].awaits = "arrayBuffer" /\ body = <<>>
    /\ ret' = [ret EXCEPT !.calls[k] = afterBody(ret.loader, @, body)]
    /\ UNCHANGED <<phase, args, loadVars>>

\* response.json() of call k rejects (the body is no JSON, or its read
\* fails), or response.arrayBuffer() does, and with it the promise of loadModel.
BodyRejects(k) ==
    /\ phase = "loadModel"
    /\ ret.calls[k].awaits \in {"json", "arrayBuffer"}
    /\ ret' = [ret EXCEPT !.calls[k] =
                  [@ EXCEPT !.awaits = "none", !.settled = "rejected",
                            !.reason = "bodyError"]]
    /\ UNCHANGED <<phase, args, loadVars>>

NextLoadModel ==
    \/ \E url \in Urls : LoadModel(url)
    \/ \E k \in 1..Len(ret.calls) : FetchRejects(k)
    \/ \E k \in 1..Len(ret.calls), contentType \in ContentTypes :
           Respond(k, contentType)
    \/ \E k \in 1..Len(ret.calls), body \in ResponseBodies \cup {<<>>} :
           BodyArrives(k, body)
    \/ \E k \in 1..Len(ret.calls) : BodyRejects(k)

LoadModelSpec == InitLoadModel /\ [][NextLoadModel]_vars

(***************************************************************************)
(* State predicates the properties share.                                  *)
(***************************************************************************)
Buffers == 1..Len(gltfInfo.buffers)

\* Nothing is left to run: no fetch in flight, no timer, no job suspended.
Quiescent ==
    /\ phase = "load:running"
    /\ ~awaiting
    /\ timers = 0
    /\ \A idx \in Buffers : fetchState[idx] # "inflight"

\* _parseMeshes has run in this load.
MeshesParsed == \E i \in 1..Len(starts) : starts[i].parsed

\* Where the promises of mesh m (1-based) start in pendings.
PendingOffset(m) == SumLen(SubSeq(gltfInfo.meshes, 1, m - 1))

RejectedPendings == {i \in 1..Len(pendings) : pendings[i].state = "rejected"}

\* C1: in a load without pre-supplied buffers, afterLoadBuffer starts only after
\* every declared buffer has completed successfully.
C1_BarrierBeforeSlicing ==
    \A i \in 1..Len(starts) : starts[i].loaded = Buffers

\* C2: if the fetch of a declared buffer fails, the promise of _parseGLTF never
\* resolves and, once nothing is left to run, it is rejected with a failure that
\* carries the uri of a buffer whose fetch failed.
C2_FetchFailureRejects ==
    (\E idx \in Buffers : fetchState[idx] = "failed") =>
        /\ promise.state # "resolved"
        /\ Quiescent =>
              /\ promise.state = "rejected"
              /\ promise.reason.kind = "bufferLoadError"
              /\ \E idx \in Buffers :
                    fetchState[idx] = "failed" /\ promise.reason.a = idx - 1

\* C3: if a primitive's promise is rejected, the promise of the load never
\* resolves and, once nothing is left to run, it is rejected with that failure.
C3_PrimitiveFailureRejects ==
    RejectedPendings # {} =>
        /\ promise.state # "resolved"
        /\ Quiescent =>
              /\ promise.state = "rejected"
              /\ promise.reason = pendings[CHOOSE i \in RejectedPendings :
                                      \A j \in RejectedPendings : i <= j].reason

WithoutDraco(primitives) == SelectSeq(primitives, LAMBDA q : ~q.draco)

\* C4: a primitive that declares the Draco extension has its own promise rejected
\* with the mesh index and the primitive index and pushes nothing; lib.meshes[m]
\* is what parsing mesh m without its Draco primitives pushes.
C4_DracoRejectedSiblingsKept ==
    MeshesParsed =>
        \A m \in 1..Len(gltfInfo.meshes) :
            /\ libMeshes[m] =
                   parsePrimitives(WithoutDraco(gltfInfo.meshes[m]), m - 1, 0).list
            /\ \A q \in 1..Len(gltfInfo.meshes[m]) :
                   gltfInfo.meshes[m][q].draco =>
                       pendings[PendingOffset(m) + q] =
                           Rejected(Reason("draco", m - 1, q - 1))

C4_Witness ==
    /\ MeshesParsed
    /\ \E m \in 1..Len(gltfInfo.meshes) :
          /\ gltfInfo.meshes[m] = <<PrimDraco, PrimUV>>
          /\ Len(libMeshes[m]) = 1
          /\ \A name \in geometrySlots :
                 libMeshes[m][1].geometry.attributes[name].data.ctor = "Float32Array"
          /\ pendings[PendingOffset(m) + 1] = Rejected(Reason("draco", m - 1, 0))

\* C5: when afterLoadBuffer starts with fewer buffers loaded than declared, no
\* buffer view is sliced, no mesh is parsed, the promise is never resolved and,
\* once nothing is left to run, it is rejected.
C5_IncompleteIsFatal ==
    \A i \in 1..Len(starts) :
        starts[i].incomplete =>
            /\ starts[i].sliced = {}
            /\ ~starts[i].parsed
            /\ promise.state # "resolved"
            /\ Quiescent => promise.state = "rejected"

\* C6: the promise of the load is resolved only when every primitive's promise
\* of every mesh is fulfilled; then lib.meshes holds one list per mesh, each with
\* all the primitives of its mesh, and afterLoadBuffer is not suspended.
C6_ResolvedOnlyAfterJoin ==
    promise.state = "resolved" =>
        /\ ~awaiting
        /\ Len(pendings) = SumLen(gltfInfo.meshes)
        /\ \A i \in 1..Len(pendings) : pendings[i].state = "fulfilled"
        /\ Len(libMeshes) = Len(gltfInfo.meshes)
        /\ \A m \in 1..Len(gltfInfo.meshes) :
               Len(libMeshes[m]) = Len(gltfInfo.meshes[m])

C6_Witness ==
    /\ promise.state = "resolved"
    /\ Len(gltfInfo.meshes) = 2
    /\ Len(pendings) = 2
    /\ \A idx \in Buffers : fetchState[idx] = "ok"
    /\ Len(gltfInfo.buffers) = 2

(***************************************************************************)
(* relative2absolute.                                                      *)
(***************************************************************************)
\* The '.' and '..' parts a path starts with, and the parts after them.
LeadingDots(pathParts) ==
    Max({k \in 0..Len(pathParts) : \A i \in 1..k : pathParts[i] \in {<<".">>, <<".", ".">>}})

Ups(pathParts) ==
    Cardinality({i \in 1..LeadingDots(pathParts) : pathParts[i] = <<".", ".">>})

Remaining(pathParts) == SubSeq(pathParts, LeadingDots(pathParts) + 1, Len(pathParts))

Resolved == phase = "r2a:done"

\* C7 as the spec states it: resolve("../tex/a.png", "models/scene") is "tex/a.png".
C7_Original ==
    (Resolved /\ args.path = PathTexA /\ args.basePath = BaseModelsScene) =>
        ret = StrTexA

\* C7, amended: resolve("../tex/a.png", "models/scene") is "models/tex/a.png":
\* the one leading '../' pops the one trailing segment "scene" of the base.
C7_PopsOneSegment ==
    (Resolved /\ args.path = PathTexA /\ args.basePath = BaseModelsScene) =>
        ret = StrModelsTexA

C7_Witness ==
    Resolved /\ args.path = PathTexA /\ args.basePath = BaseModelsScene

\* C8 as the spec states it: for a non-empty base and a path without a leading
\* '/', the base loses exactly one trailing segment for each leading '..' segment
\* of the path, and the result is the reduced base, '/', and the remaining path; a
\* path with a leading '/' is returned unchanged.
C8_Original ==
    (Resolved /\ Len(args.basePath) > 0) =>
        IF charAt(args.path, 0) = "/" THEN ret = args.path
        ELSE LET pathParts == split(args.path)
                 baseParts == split(args.basePath)
             IN  /\ Ups(pathParts) <= Len(baseParts)
                 /\ ret = join(SubSeq(baseParts, 1, Len(baseParts) - Ups(pathParts)))
                              \o <<"/">> \o join(Remaining(pathParts))

\* C8, amended: each leading '..' segment pops one trailing segment of the base
\* while the base has one left, and is dropped without effect once it is empty;
\* the result is the reduced base, '/', and the remaining path, and a path with a
\* leading '/' is returned unchanged.
C8_PopsWhileSegmentsLeft ==
    (Resolved /\ Len(args.basePath) > 0) =>
        IF charAt(args.path, 0) = "/" THEN ret = args.path
        ELSE LET pathParts == split(args.path)
                 baseParts == split(args.basePath)
                 kept == IF Ups(pathParts) >= Len(baseParts) THEN 0
                         ELSE Len(baseParts) - Ups(pathParts)
             IN  ret = join(SubSeq(baseParts, 1, kept))
                           \o <<"/">> \o join(Remaining(pathParts))

C8_Witness ==
    /\ Resolved
    /\ args.basePath = BaseModels
    /\ args.path = PathDotA
    /\ ret = StrModelsA

(***************************************************************************)
(* base64ToBinary.                                                         *)
(***************************************************************************)
Decoded == phase = "base64:done"

\* C9: base64ToBinary(p + e, length of p) returns the bytes base64ToBinary(e, 0)
\* returns, for every prefix p and every padded base64 string e.
C9_PrefixIndependent ==
    Decoded => ret = base64ToBinary(Encode(args.bytes), 0)

\* C10: base64ToBinary(e, 0) of the padded base64 encoding e of a byte sequence
\* returns exactly the bytes of the sequence.
C10_RoundTrip ==
    (Decoded /\ args.prefix = <<>>) => ret = args.bytes

C10_Witness ==
    /\ Decoded
    /\ args.prefix = <<>>
    /\ Encode(args.bytes) = <<"Q", "Q", "=", "=">>
    /\ ret = <<65>>

(***************************************************************************)
(* _loadBuffers.                                                           *)
(***************************************************************************)
BuffersRequested == phase = "loadBuffers:done"

\* C11 as the spec states it: a buffer URI that starts with any
\* 'data:...base64,' prefix is handed, decoded, to onsuccess by _loadBuffers
\* itself, and fetch is not called.
C11_Original ==
    (BuffersRequested /\ args.prefix \in DataPrefixes) =>
        /\ ret.fetch = <<>>
        /\ Len(ret.onsuccess) = 1

\* C11, amended: only a URI that starts with
\* 'data:application/octet-stream;base64,' is decoded by base64ToBinary and
\* causes no call of fetch; a URI with any other 'data:...base64,' prefix is
\* passed to fetch unchanged, and every other URI is passed to fetch resolved
\* against bufferRootPath; neither calls onsuccess before _loadBuffers returns.
C11_OnlyOctetStreamInline ==
    BuffersRequested =>
        LET path == args.prefix \o args.rest
        IN  IF args.prefix = base64Prefix
            THEN /\ ret.fetch = <<>>
                 /\ ret.onsuccess = <<base64ToBinary(path, Len(base64Prefix))>>
            ELSE /\ ret.onsuccess = <<>>
                 /\ ret.fetch = <<IF args.prefix \in DataPrefixes THEN path
                                  ELSE relative2absolute(path, args.bufferRootPath)>>

C11_Witness ==
    /\ BuffersRequested
    /\ args.prefix = GltfBufferPrefix
    /\ args.rest = <<"Q", "Q", "=", "=">>
    /\ ret.fetch = <<GltfBufferPrefix \o <<"Q", "Q", "=", "=">> >>
    /\ ret.onsuccess = <<>>

(***************************************************************************)
(* _getAccessorData.                                                       *)
(***************************************************************************)
AccessorRead == phase = "accessor:done"

\* A valid accessor: one of the six component types, one of the seven types, a
\* byte offset aligned to the element size and a buffer view that holds all
\* its elements.
ValidAccessor ==
    /\ args.case.componentType \in DOMAIN ARRAY_CTOR_MAP
    /\ args.case.type \in DOMAIN SIZE_MAP
    /\ args.case.byteOffset % BYTES_PER_ELEMENT(ARRAY_CTOR_MAP[args.case.componentType]) = 0
    /\ ~args.case.truncated

\* The element values the author wrote, in order.
RawValues ==
    [j \in 1..(SIZE_MAP[args.case.type] * args.case.count) |->
        ValueAt(args.case.values, j - 1)]

\* C12: for every valid accessor, with or without the quantization extension,
\* _getAccessorData returns a buffer of componentCount(type) * count elements.
C12_LengthIsSizeTimesCount ==
    (AccessorRead /\ ValidAccessor) =>
        /\ ~ret.threw
        /\ Len(ret.data) = SIZE_MAP[args.case.type] * args.case.count

C12_Witness ==
    /\ AccessorRead
    /\ ValidAccessor
    /\ args.case.type = "MAT3"
    /\ args.case.componentType = 5123
    /\ args.case.count = 2
    /\ args.case.decodeKind = "affine"
    /\ Len(ret.data) = 18

\* C13: for a valid accessor with n components and a decodeMatrix, element i,
\* component k of the result is raw[i*n+k] * decodeMatrix[k*(n+1)+k] +
\* decodeMatrix[n*(n+1)+k]; with the identity matrix the result holds the raw
\* values.
C13_QuantizedDecode ==
    (AccessorRead /\ ValidAccessor /\ args.case.decodeKind # "none") =>
        LET n == SIZE_MAP[args.case.type]
            decodeMatrix == DecodeMatrixOf(args.case.decodeKind, n)
        IN  /\ ~ret.threw
            /\ ret.ctor = "Float32Array"
            /\ \A i \in 0..(args.case.count - 1) : \A k \in 0..(n - 1) :
                   ret.data[i * n + k + 1] =
                       RawValues[i * n + k + 1] * decodeMatrix[k * (n + 1) + k + 1]
                           + decodeMatrix[n * (n + 1) + k + 1]
            /\ args.case.decodeKind = "identity" => ret.data = RawValues

C13_Witness ==
    /\ AccessorRead
    /\ ValidAccessor
    /\ args.case.decodeKind = "affine"
    /\ args.case.type = "VEC3"
    /\ args.case.componentType = 5122
    /\ args.case.values = <<-300, 0, 7>>
    /\ args.case.count = 2
    /\ ret.data = <<-590, 11, 40, -590, 11, 40>>

(***************************************************************************)
(* The executor of a primitive's promise.                                  *)
(***************************************************************************)
Assembled == phase = "assemble:done"

CaseSemantics == {args.case.semantics[ss] : ss \in 1..Len(args.case.semantics)}

\* The Geometry of the primitive the executor pushed.
Emitted == ret.pushed[1].geometry

\* The count of the accessor of a semantic: the number of vertices it has
\* values for.
CountOf(semantic) ==
    IF semantic = "POSITION" THEN args.case.vertices
    ELSE args.case.vertices + args.case.more

\* The element values the author wrote for a semantic, in order.
RawOf(semantic) ==
    [j \in 1..(SIZE_MAP[TypeOfSemantic(semantic, args.case.altLayout)]
                   * CountOf(semantic)) |->
        ValueAt(ValuesOfSemantic(semantic), j - 1)]

\* position.data.length / position.size, where that is a count.
VertexCountOf(geometry) ==
    IF geometry.attributes.position.size = 0 THEN 0
    ELSE Len(geometry.attributes.position.data.data)
             \div geometry.attributes.position.size

\* A primitive without the Draco extension that has POSITION and NORMAL, so
\* that neither the vertex count nor the normal generator decides its fate.
PlainCase ==
    /\ ~args.case.draco
    /\ {"POSITION", "NORMAL"} \subseteq CaseSemantics

\* C14: for each of the eight recognised semantics on a primitive, the executor
\* fulfils the promise and the Geometry holds, under the mapped internal name,
\* the decoded data (for a layout the assembler does not change: the values of
\* the accessor).
C14_RecognisedSemanticsStored ==
    (Assembled /\ PlainCase) =>
        /\ ret.promise = Fulfilled
        /\ Len(ret.pushed) = 1
        /\ \A s \in CaseSemantics \cap DOMAIN semanticAttributeMap :
              /\ semanticAttributeMap[s] \in DOMAIN Emitted.attributes
              /\ Emitted.attributes[semanticAttributeMap[s]].data.ctor # "null"
              /\ ~( \/ (s = "WEIGHTS_0" /\ ~args.case.altLayout)
                    \/ (s = "COLOR_0" /\ ~args.case.altLayout) ) =>
                     Emitted.attributes[semanticAttributeMap[s]].data.data = RawOf(s)

\* Whether the stored element is the quotient num / den.
IsQuotient(ctor, stored, num, den) ==
    IF ctor = "Float32Array" THEN stored.num * den = num * stored.den
    ELSE stored * den = num

\* C15: for a primitive whose WEIGHTS_0 accessor has 4 components, of any
\* element type, the Geometry holds a weight attribute of 3 values per vertex,
\* w1/S, w2/S and w3/S with S = w1+w2+w3+w4 > 0.
C15_WeightsRenormalised ==
    (Assembled /\ PlainCase /\ "WEIGHTS_0" \in CaseSemantics /\ ~args.case.altLayout) =>
        /\ ret.promise = Fulfilled
        /\ Len(ret.pushed) = 1
        /\ "weight" \in DOMAIN Emitted.attributes
        /\ LET weight == Emitted.attributes["weight"].data
               w == RawOf("WEIGHTS_0")
           IN  /\ Len(weight.data) = 3 * CountOf("WEIGHTS_0")
               /\ \A i \in 0..(CountOf("WEIGHTS_0") - 1) : \A c \in 1..3 :
                      IsQuotient(weight.ctor, weight.data[i * 3 + c], w[i * 4 + c],
                                 w[i * 4 + 1] + w[i * 4 + 2] + w[i * 4 + 3] + w[i * 4 + 4])

\* C16: for a primitive whose COLOR_0 accessor has 3 components and N vertices,
\* the Geometry holds a color buffer of length 4N: per vertex the three source
\* values in order, then 1.
C16_ColorExpanded ==
    (Assembled /\ PlainCase /\ "COLOR_0" \in CaseSemantics /\ ~args.case.altLayout) =>
        /\ ret.promise = Fulfilled
        /\ Len(ret.pushed) = 1
        /\ "color" \in DOMAIN Emitted.attributes
        /\ LET color == Emitted.attributes["color"].data.data
               source == RawOf("COLOR_0")
           IN  /\ Len(color) = 4 * CountOf("COLOR_0")
               /\ \A i \in 0..(CountOf("COLOR_0") - 1) :
                      /\ \A c \in 1..3 : color[i * 4 + c] = source[i * 3 + c]
                      /\ color[i * 4 + 4] = 1

\* C17: in the Geometry the executor pushes, every attribute that has data
\* holds size * vertexCount elements, where size is the component count
\* recorded with it and vertexCount is the length of the position data divided
\* by the position's size; and the executor of a primitive with POSITION,
\* NORMAL and a WEIGHTS_0 of 4 components or a COLOR_0 of 3 pushes a Geometry
\* that holds the renormalised weights or the expanded colours, of which the
\* same is true.
C17_LengthIsSizeTimesVertexCount ==
    /\ (Assembled /\ Len(ret.pushed) = 1) =>
           \A name \in DOMAIN Emitted.attributes :
               Emitted.attributes[name].data.ctor # "null" =>
                   Len(Emitted.attributes[name].data.data) =
                       Emitted.attributes[name].size * VertexCountOf(Emitted)
    /\ \A s \in {"WEIGHTS_0", "COLOR_0"} :
           (Assembled /\ PlainCase /\ s \in CaseSemantics /\ ~args.case.altLayout) =>
               /\ Len(ret.pushed) = 1
               /\ semanticAttributeMap[s] \in DOMAIN Emitted.attributes
               /\ Emitted.attributes[semanticAttributeMap[s]].data.ctor # "null"

\* C18: in every Geometry the executor pushes with an index buffer, every index
\* is at least 0 and less than vertexCount.
C18_IndicesInRange ==
    (Assembled /\ ret.promise = Fulfilled /\ Emitted.index.ctor # "null") =>
        \A j \in 1..Len(Emitted.index.data) :
            /\ Emitted.index.data[j].hi < 32768
            /\ Emitted.index.data[j].hi * 65536 + Emitted.index.data[j].lo
                   \in 0..(VertexCountOf(Emitted) - 1)

\* C19: the executor of a primitive that has no POSITION semantic (and no
\* semantic without a slot in the geometry) fulfils its promise and pushes a
\* Geometry, of vertex count 0.
C19_NoPositionSucceeds ==
    (Assembled /\ ~args.case.draco /\ "POSITION" \notin CaseSemantics
         /\ CaseSemantics \subseteq {"NORMAL", "TEXCOORD_0", "_BATCHID"}) =>
        /\ ret.promise = Fulfilled
        /\ Len(ret.pushed) = 1
        /\ Emitted.attributes.position.data.ctor = "null"

\* C20: the executor of a primitive that has POSITION and no NORMAL (and no
\* semantic without a slot in the geometry) fulfils its promise, and the
\* Geometry it pushes has normal data of 3 values per vertex, as long as the
\* position data.
C20_NormalsGenerated ==
    (Assembled /\ ~args.case.draco /\ "POSITION" \in CaseSemantics
         /\ "NORMAL" \notin CaseSemantics
         /\ CaseSemantics \subseteq {"POSITION", "TEXCOORD_0", "_BATCHID"}) =>
        /\ ret.promise = Fulfilled
        /\ Len(ret.pushed) = 1
        /\ Emitted.attributes.normal.data.ctor # "null"
        /\ Len(Emitted.attributes.normal.data.data) = 3 * args.case.vertices
        /\ Len(Emitted.attributes.normal.data.data) =
               Len(Emitted.attributes.position.data.data)

(***************************************************************************)
(* generateVertexNormals.                                                  *)
(***************************************************************************)
NormalsInput == NormalsGeometry(args.case)

NormalsCalled == phase \in {"normals:once", "normals:twice"}

\* The normals of the geometry match its positions before the first call.
NormalsMatch ==
    Len(NormalsInput.attributes.normal.data.data)
        = Len(NormalsInput.attributes.position.data.data)
    /\ NormalsInput.attributes.normal.data.ctor # "null"

\* C21: on a geometry whose normals have the length of its positions,
\* whatever the element type of the normals, a call of generateVertexNormals
\* leaves the normals it leaves when the buffer holds other values before the
\* call (they are recomputed from the positions and the indices alone; in a
\* Float32Array they are those it leaves on the same geometry without
\* normals), a second call in a row leaves the normals the first one left, and
\* neither call changes the positions or the indices.
C21_Idempotent ==
    (NormalsCalled /\ NormalsMatch) =>
        /\ hasVertexCount(NormalsInput.attributes.position) =>
               ret.once.geometry.attributes.normal.data =
                   generateVertexNormals(
                       args.case.glMatrix,
                       [NormalsInput EXCEPT !.attributes.normal.data.data =
                           [j \in 1..Len(@) |-> 0 - j]]
                   ).geometry.attributes.normal.data
        /\ (hasVertexCount(NormalsInput.attributes.position)
                /\ NormalsInput.attributes.normal.data.ctor = "Float32Array") =>
               ret.once.geometry.attributes.normal.data =
                   generateVertexNormals(
                       args.case.glMatrix,
                       [NormalsInput EXCEPT !.attributes.normal.data = NullData]
                   ).geometry.attributes.normal.data
        /\ ret.once.geometry.attributes.position = NormalsInput.attributes.position
        /\ ret.once.geometry.index = NormalsInput.index
        /\ phase = "normals:twice" =>
               /\ ret.twice[1].geometry.attributes.normal.data =
                      ret.once.geometry.attributes.normal.data
               /\ ret.twice[1].geometry.attributes.position =
                      NormalsInput.attributes.position
               /\ ret.twice[1].geometry.index = NormalsInput.index

\* Two calls on the triangle (0,0,0), (1,0,0), (0,0,200) with stale normals in
\* an Int8Array: both leave (0,1,0) at every vertex, the face vector
\* (0,-200,0) being (0,56,0) in the accumulators of an Int8Array.
C21_Witness ==
    /\ phase = "normals:twice"
    /\ NormalsMatch
    /\ args.case.normal = "bytes"
    /\ args.case.positions = <<0, 0, 0, 1, 0, 0, 0, 0, 200>>
    /\ args.case.index = <<>>
    /\ ret.once.threw
    /\ ret.twice[1].threw
    /\ ret.twice[1].geometry.attributes.normal.data =
           TypedArray("Int8Array", <<0, 1, 0, 0, 1, 0, 0, 1, 0>>)

\* The faces of the geometry: the triples of its index buffer, or the triples
\* of consecutive vertices when it has none.
FaceIndices ==
    IF args.case.index = <<>>
    THEN [f \in 1..(Len(args.case.positions) \div 3) |-> f - 1]
    ELSE args.case.index[1]

\* The faces are whole triples of vertices the geometry has.
WholeFaces ==
    /\ Len(FaceIndices) % 3 = 0
    /\ \A f \in 1..Len(FaceIndices) : FaceIndices[f] < Len(args.case.positions) \div 3

Position(v) ==
    << args.case.positions[3 * v + 1], args.case.positions[3 * v + 2],
       args.case.positions[3 * v + 3] >>

\* (p1 - p2) x (p2 - p3), component by component.
FaceVector(p1, p2, p3) ==
    << (p1[2] - p2[2]) * (p2[3] - p3[3]) - (p1[3] - p2[3]) * (p2[2] - p3[2]),
       (p1[3] - p2[3]) * (p2[1] - p3[1]) - (p1[1] - p2[1]) * (p2[3] - p3[3]),
       (p1[1] - p2[1]) * (p2[2] - p3[2]) - (p1[2] - p2[2]) * (p2[1] - p3[1]) >>

\* How often vertex v occurs in the face that starts at index f (1-based).
Occurrences(v, f) == Cardinality({k \in 0..2 : FaceIndices[f + k] = v})

\* Component c of the sum of the face vectors of the faces from f on, each
\* counted once for each occurrence of vertex v in the face.
RECURSIVE SumOverFaces(_, _, _)
SumOverFaces(v, c, f) ==
    IF f > Len(FaceIndices) THEN 0
    ELSE Occurrences(v, f)
             * FaceVector(Position(FaceIndices[f]), Position(FaceIndices[f + 1]),
                          Position(FaceIndices[f + 2]))[c]
         + SumOverFaces(v, c, f + 3)

\* C25: when the faces of the geometry are whole triangles, the normals the
\* face loop leaves hold, for every vertex v, the sum over the faces (the index
\* triples, or the triples of consecutive vertices) of (p1 - p2) x (p2 - p3),
\* once for each occurrence of v in the face; every vertex of the triangle
\* (0,0,0), (1,0,0), (0,1,0) accumulates (0,0,1).
C25_AccumulatedFaceVectors ==
    (NormalsCalled /\ ret.sums # <<>> /\ WholeFaces) =>
        /\ Len(ret.sums[1].data) = Len(args.case.positions)
        /\ \A v \in 0..((Len(args.case.positions) \div 3) - 1) :
               \A c \in 1..3 : ret.sums[1].data[3 * v + c] = SumOverFaces(v, c, 1)
        /\ (args.case.positions = <<0, 0, 0, 1, 0, 0, 0, 1, 0>>
                /\ args.case.index \in {<<>>, << <<0, 1, 2>> >>}) =>
               ret.sums[1].data = <<0, 0, 1, 0, 0, 1, 0, 0, 1>>

(***************************************************************************)
(* generateTangents.                                                       *)
(***************************************************************************)
TangentsInput == TangentsGeometry(args.case)

\* C22: a call of generateTangents on a geometry without texcoords logs the
\* warning and leaves every attribute of the geometry, the tangent attribute
\* included, as it was before the call.
C22_NoTexcoordsNoOp ==
    (phase = "tangents:done" /\ args.case.uv = "null") =>
        /\ ret.warned
        /\ ret.threw = "none"
        /\ ret.geometry.attributes = TangentsInput.attributes

\* C23: once generateTangents has run on a geometry with texcoords and has
\* returned, the geometry has a tangent buffer of 4 entries per vertex whose
\* 4th entry is -1 or 1 at every vertex.
C23_TangentsHaveHandedness ==
    (phase = "tangents:done" /\ args.case.uv # "null" /\ ret.threw = "none") =>
        /\ "tangent" \in DOMAIN ret.geometry.attributes
        /\ Len(ret.geometry.attributes.tangent.data.data) = 4 * args.case.vertices
        /\ \A v \in 1..args.case.vertices :
               ret.geometry.attributes.tangent.data.data[4 * v] \in {-1, 1}

(***************************************************************************)
(* _parseMeshes: the index buffer.                                         *)
(***************************************************************************)
\* The index values the author wrote, as many as the index accessor counts.
RawIndices ==
    IF args.case.index.kind = "valid" /\ args.case.vertices = 0 THEN <<>>
    ELSE IndexValues(args.case.index.kind, args.case.vertices)

\* Whether the element u of a Uint32Array, a pair of 16-bit halves, is the
\* unsigned 32-bit integer an index value v becomes: v itself when v >= 0, and
\* 2^32 + v when v < 0 (then 2^32 - 1 - u = -v - 1).
IsUint32Of(u, v) ==
    /\ u.hi \in 0..65535
    /\ u.lo \in 0..65535
    /\ IF v >= 0 THEN u.hi < 32768 /\ u.hi * 65536 + u.lo = v
       ELSE 65535 - u.hi < 32768
                /\ (65535 - u.hi) * 65536 + (65535 - u.lo) = 0 - v - 1

WroteAfterNull ==
    \/ promise.state = "rejected" /\ promise.reason.kind = "TypeError"
    \/ \E idx \in Buffers :
           /\ fetchState[idx] = "ok"
           /\ Reason("bufferLoadError", idx - 1, -1) \in unhandled

\* C27: within one load afterLoadBuffer is started at most once, and no buffer
\* completion callback runs its write into lib.buffers after lib.buffers has
\* been set to null.
C27_StartedAtMostOnce ==
    /\ Len(starts) <= 1
    /\ ~WroteAfterNull

\* C28: in the load of a document that declares no buffer, afterLoadBuffer is
\* never called and the promise of _parseGLTF stays pending.
C28_ZeroBuffersNeverSettles ==
    Len(gltfInfo.buffers) = 0 =>
        /\ starts = <<>>
        /\ promise.state = "pending"
        /\ ~awaiting
        /\ timers = 0
        /\ libMeshes = <<>>

\* The executor has run on a document without buffers and with meshes, and
\* nothing is left to run.
C28_Witness ==
    /\ Quiescent
    /\ Len(gltfInfo.buffers) = 0
    /\ Len(gltfInfo.meshes) = 2
    /\ promise.state = "pending"

\* The calls of loadModel made so far, and those that received a response.
Calls == IF phase = "loadModel" THEN {ret.calls[k] : k \in 1..Len(ret.calls)} ELSE {}
Responded == {c \in Calls : c.response # <<>>}
NoUrl(c) == c.url = <<>> \/ c.url[1] = <<>>
NothingLoaded(c) == ~c.parsed /\ c.requests = <<>>
IsGltfJson(c) == c.response[1] # <<>> /\ includes(c.response[1][1], GltfJson)
IsGltfBinary(c) == c.response[1] # <<>> /\ includes(c.response[1][1], GltfBinary)

\* C24: loadModel rejects its promise when the url is missing or empty, and
\* when the response's content type is neither glTF JSON nor glTF binary; in
\* both cases no buffer is loaded and no mesh is parsed.
C24_RejectsWithoutLoading ==
    /\ \A c \in Calls : NoUrl(c) => c.settled = "rejected" /\ NothingLoaded(c)
    /\ \A c \in Responded :
           ~IsGltfJson(c) /\ ~IsGltfBinary(c)
               => c.settled = "rejected" /\ NothingLoaded(c)

\* One loader was called with an empty url and then received a response
\* announced as application/json.
C24_Witness ==
    /\ phase = "loadModel"
    /\ Len(ret.calls) = 2
    /\ ret.calls[1].url = << <<>> >>
    /\ ret.calls[1].reason = "urlError"
    /\ ret.calls[2].url = << <<"m","o","d","e","l","s","/","s","c","e","n","e",".","g","l","t","f">> >>
    /\ ret.calls[2].response = << << <<"a","p","p","l","i","c","a","t","i","o","n","/","j","s","o","n">> >> >>
    /\ ret.calls[2].reason = "contentTypeError"

\* C30: for a response of content type model/gltf-binary loadModel reads the
\* body as an array buffer and parses nothing: once the body is read its
\* promise is resolved with undefined, and until then it is pending.
C30_BinaryResolvesUndefined ==
    \A c \in Responded :
        IsGltfBinary(c) /\ ~IsGltfJson(c)
            => /\ NothingLoaded(c)
               /\ c.awaits \in {"arrayBuffer", "none"}
               /\ c.awaits = "arrayBuffer" => c.settled = "pending"
               /\ (c.awaits = "none" /\ c.reason = "none") => c.settled = "undefined"

\* A call whose binary body was read while a later call was still suspended.
C30_Witness ==
    /\ phase = "loadModel"
    /\ Len(ret.calls) = 2
    /\ ret.calls[1].url = << <<"o","t","h","e","r","/","d","e","e","p","/","s","c","e","n","e",".","g","l","t","f">> >>
    /\ ret.calls[1].response = << <<GltfBinary>> >>
    /\ ret.calls[1].awaits = "none"
    /\ ret.calls[1].settled = "undefined"
    /\ ret.calls[2].awaits = "fetch"

\* The part of a url before its last "/": its directory.
Directory(url) ==
    IF \E i \in 1..Len(url) : url[i] = "/"
    THEN SubSeq(url, 1, (CHOOSE i \in 1..Len(url) :
                            url[i] = "/" /\ \A j \in (i + 1)..Len(url) : url[j] # "/") - 1)
    ELSE <<>>

IsRelative(uri) ==
    /\ ~(Len(uri) >= Len(base64Prefix)
          /\ SubSeq(uri, 1, Len(base64Prefix)) = base64Prefix)
    /\ ~(Len(uri) > 0 /\ uri[1] = "/")

\* Every relative buffer URI of the calls from the k-th on was fetched from
\* where root puts it.
ResolvedAgainst(root, k) ==
    \A j \in k..Len(ret.calls) :
        ret.calls[j].parsed =>
            \A i \in 1..Len(ret.calls[j].requests) :
                LET uri == ret.calls[j].body[1][i]
                IN  IsRelative(uri) =>
                        ret.calls[j].requests[i].fetch = <<relative2absolute(uri, root)>>

\* C29: a loader constructed without rootPath keeps the roots derived from
\* the url of its first loadModel call: that call and every later one, whatever
\* its url, resolve their relative buffer URIs against the directory of the
\* first call's url.
C29_RootsFromFirstCall ==
    (phase = "loadModel"
     /\ args.opt.rootPath = <<>> /\ Len(ret.calls) > 0 /\ ~NoUrl(ret.calls[1]))
        => ResolvedAgainst(Directory(ret.calls[1].url[1]), 1)

=============================================================================
